---- MODULE Spec2Model ----
(***************************************************************************)
(* A model of the daily network economic state engine of agentfil          *)
(* (src/agentfil/filecoin_model.py): the network ledger filecoin_df, the   *)
(* per-agent power ledgers and accounting tables, the bootstrap            *)
(* (_fast_forward_to_simulation_start) and the daily step().               *)
(*                                                                         *)
(* Numbers.  The program computes in floating point; the model computes in *)
(* exact extended rationals [n, d] (d > 0 a rational, d = 0 the IEEE       *)
(* specials: n = 0 NaN, n = 1 +inf, n = -1 -inf).                          *)
(* Units.  Byte quantities are counted in units of 2^50 bytes, so PIB is 1 *)
(* and EIB is 1024; FIL amounts are counted in units of 10^6 FIL.          *)
(***************************************************************************)
EXTENDS Integers, Sequences, FiniteSets, TLC

(***************************************************************************)
(* Bounds of the model.                                                    *)
(***************************************************************************)
NumAgents == 2
BootDays == 2
ShortSim == 2
MaxSteps == 2
MaxPow == 4
ShortDuration == 1

(***************************************************************************)
(* Program constants.                                                      *)
(***************************************************************************)
PIB == 1
EIB == 1024
VEST_DAYS == 180
LongDuration == 360

(***************************************************************************)
(* Extended rational arithmetic.                                           *)
(***************************************************************************)
Abs(i) == IF i < 0 THEN 0 - i ELSE i

RECURSIVE GCD(_, _)
GCD(a, b) == IF b = 0 THEN a ELSE GCD(b, a % b)

NaN == [n |-> 0, d |-> 0]
Inf == [n |-> 1, d |-> 0]
NegInf == [n |-> -1, d |-> 0]

Sgn(i) == IF i > 0 THEN 1 ELSE IF i < 0 THEN -1 ELSE 0

Frac(a, b) ==
    IF b = 0 THEN [n |-> Sgn(a), d |-> 0]
    ELSE LET s == IF b < 0 THEN -1 ELSE 1
             g == GCD(Abs(a), Abs(b))
         IN  [n |-> (s * a) \div g, d |-> (s * b) \div g]

Q(i) == [n |-> i, d |-> 1]
Zero == Q(0)
One == Q(1)

IsNaN(x) == x.d = 0 /\ x.n = 0
IsFinite(x) == x.d > 0

\* x + y, with the IEEE rules for the specials
Add(x, y) ==
    IF IsNaN(x) \/ IsNaN(y) THEN NaN
    ELSE IF x.d = 0 /\ y.d = 0 THEN (IF x.n = y.n THEN x ELSE NaN)
    ELSE IF x.d = 0 THEN x
    ELSE IF y.d = 0 THEN y
    ELSE LET g == GCD(x.d, y.d)
         IN  Frac(x.n * (y.d \div g) + y.n * (x.d \div g), (x.d \div g) * y.d)

Neg(x) == [n |-> 0 - x.n, d |-> x.d]
Sub(x, y) == Add(x, Neg(y))

Mul(x, y) ==
    IF IsNaN(x) \/ IsNaN(y) THEN NaN
    ELSE IF x.d = 0 \/ y.d = 0
         THEN (IF x.n = 0 \/ y.n = 0 THEN NaN ELSE [n |-> Sgn(x.n) * Sgn(y.n), d |-> 0])
    ELSE LET g1 == GCD(Abs(x.n), y.d)
             g2 == GCD(Abs(y.n), x.d)
         IN  IF x.n = 0 \/ y.n = 0 THEN Zero
             ELSE [n |-> (x.n \div g1) * (y.n \div g2), d |-> (x.d \div g2) * (y.d \div g1)]

\* x / y as numpy float64 divides: x/0 is +-inf, 0/0 is NaN
Div(x, y) ==
    IF IsNaN(x) \/ IsNaN(y) THEN NaN
    ELSE IF y.d = 0 THEN (IF x.d = 0 THEN NaN ELSE Zero)
    ELSE IF y.n = 0 THEN [n |-> Sgn(x.n), d |-> 0]
    ELSE IF x.d = 0 THEN [n |-> x.n * Sgn(y.n), d |-> 0]
    ELSE Mul(x, Frac(y.d, y.n))

\* a/b < c/d for b, d > 0, by comparing the continued fractions
RECURSIVE LtFrac(_, _, _, _)
LtFrac(a, b, c, d) ==
    IF a \div b # c \div d THEN a \div b < c \div d
    ELSE IF c % d = 0 THEN FALSE
    ELSE IF a % b = 0 THEN TRUE
    ELSE LtFrac(d, c % d, b, a % b)

\* x < y; every comparison with NaN is false
Lt(x, y) ==
    IF IsNaN(x) \/ IsNaN(y) THEN FALSE
    ELSE IF x.d = 0 /\ y.d = 0 THEN x.n < y.n
    ELSE IF x.d = 0 THEN x.n < 0
    ELSE IF y.d = 0 THEN y.n > 0
    ELSE LtFrac(x.n, x.d, y.n, y.d)

Le(x, y) == Lt(x, y) \/ (~IsNaN(x) /\ x = y)
Eq(x, y) == ~IsNaN(x) /\ x = y

\* Python's builtin max(a, b) and min(a, b): the first argument unless the
\* second compares greater (smaller); a NaN first argument is returned.
PyMax(a, b) == IF Lt(a, b) THEN b ELSE a
PyMin(a, b) == IF Lt(b, a) THEN b ELSE a

\* numpy.clip(x, lo, hi) = minimum(maximum(x, lo), hi); NaN propagates
NpClip(x, lo, hi) ==
    IF IsNaN(x) THEN NaN
    ELSE LET m == IF Lt(x, lo) THEN lo ELSE x
         IN  IF Lt(hi, m) THEN hi ELSE m

\* the largest integer not above a finite x
Floor(x) == x.n \div x.d

\* the function f with every value computed, once
Table(f) == f @@ <<>>

\* the expression F with its name bound to the value x, computed once
Bind(x, F(_)) == F(x)

RECURSIVE SumOver(_, _)
SumOver(f, S) ==
    IF S = {} THEN Zero
    ELSE LET i == CHOOSE j \in S : \A k \in S : j <= k
         IN  Add(f[i], SumOver(f, S \ {i}))

MIN_VALUE == Frac(1, 1000000)
SECTOR_SIZE == Frac(1, 32768)
lock_target == Frac(3, 10)
disbursed_reserve == Q(17)

(***************************************************************************)
(* Collaborator curves (mechafil.minting, mechafil.vesting): pure,         *)
(* non-decreasing functions of the day index or of cumulative capped power.*)
(***************************************************************************)
network_baseline(t) == Q(3 + t)
cum_simple_reward(t) == Q(6 * (t + 1))
total_vest(t) == Q(20 + 2 * t)
network_time(ccp) == IF IsFinite(ccp) THEN Q(Floor(ccp) \div 2) ELSE ccp
cum_baseline_reward(nt) == IF IsFinite(nt) THEN Q(3 * Floor(nt)) ELSE nt

(***************************************************************************)
(* State.                                                                  *)
(***************************************************************************)
VARIABLES
    compute_cs_from_networkdatastart,  \* constructor flag
    use_historical_gas,                \* constructor flag
    start_day,                         \* index of start_date from NETWORK_DATA_START
    end_day,                           \* index of end_date; filecoin_df has rows 0..end_day-1
    current_day,                       \* model.current_day
    pc,                                \* position of the constructor / clock
    hist,                              \* the historical tables read at construction
    filecoin_df,                       \* the network ledger, one row per day
    agents,                            \* per agent: power ledger and accounting_df
    upd,                               \* local values of the latest daily update
    boot_day,                          \* loop index of the bootstrap's supply loop
    probe,                             \* arguments and result of a function applied on its own
    err                                \* the exception raised, "none" when there is none

vars == <<compute_cs_from_networkdatastart, use_historical_gas, start_day, end_day,
          current_day, pc, hist, filecoin_df, agents, upd, boot_day, probe, err>>

cfg == <<compute_cs_from_networkdatastart, use_historical_gas, start_day, end_day, hist>>

Agents == 1..NumAgents
Days == 0..(end_day - 1)
LongSim == VEST_DAYS + 2

ZeroPower == [rb |-> Zero, qa |-> Zero, dur |-> 0]

\* a row of an agent's accounting_df
ZeroAccounting ==
    [onboard_pledge_FIL |-> Zero, renew_pledge_FIL |-> Zero,
     onboard_scheduled_pledge_release_FIL |-> Zero,
     renew_scheduled_pledge_release_FIL |-> Zero,
     scheduled_pledge_release |-> Zero,
     reward_FIL |-> Zero, full_reward_for_power_FIL |-> Zero,
     termination_burned_FIL |-> Zero]

\* a row of filecoin_df as _initialize_network_description_df and
\* _download_historical_data leave it; a column that does not exist yet reads NaN
EmptyRow ==
    [day_onboarded_rbp_pib |-> NaN, day_onboarded_qap_pib |-> NaN,
     day_renewed_rbp_pib |-> NaN, day_renewed_qap_pib |-> NaN,
     day_sched_expire_rbp_pib |-> NaN, day_sched_expire_qap_pib |-> NaN,
     day_terminated_rbp_pib |-> NaN, day_terminated_qap_pib |-> NaN,
     day_network_rbp_pib |-> NaN, day_network_qap_pib |-> NaN,
     total_raw_power_eib |-> NaN, total_qa_power_eib |-> NaN,
     capped_power |-> NaN, cum_capped_power |-> NaN, network_time |-> NaN,
     cum_baseline_reward |-> NaN, cum_network_reward |-> NaN,
     day_network_reward |-> NaN, day_simple_reward |-> NaN,
     burn_from_terminations |-> Zero,
     day_pledge_per_QAP |-> Zero, day_rewards_per_sector |-> Zero,
     pledge_delta |-> Zero, reward_delta |-> Zero,
     scheduled_pledge_release |-> Zero,
     network_gas_burn |-> NaN,
     day_locked_pledge |-> NaN, day_renewed_pledge |-> NaN,
     network_locked_pledge |-> NaN, network_locked_reward |-> NaN,
     original_pledge |-> NaN, renewal_rate |-> NaN,
     network_locked |-> NaN, circ_supply |-> NaN]

(***************************************************************************)
(* Historical tables (mechafil.data): the inputs of the constructor.       *)
(* Three data sets: an empty network, a network with power and a healthy   *)
(* supply, and the same network with most of the supply locked.  A fourth  *)
(* one, "uneven", is the healthy network with a gas burn that is not the   *)
(* same every day; daily_burnt_fil is the mean of its daily differences.   *)
(* A fifth one, "renewing", is the healthy network with sectors that       *)
(* expire and are renewed, and pledge released, on the historical days.    *)
(***************************************************************************)
HistNames == {"empty", "seeded", "stressed"}

\* historical_stats / scheduled_df row of day t: the network's power events
HistPower(h, t, sd) ==
    IF h = "empty" THEN
        [onb_rb |-> Zero, onb_qa |-> Zero, ext_rb |-> Zero, ext_qa |-> Zero,
         se_rb |-> Zero, se_qa |-> Zero, term_rb |-> Zero, term_qa |-> Zero]
    ELSE IF h = "renewing" THEN
        [onb_rb |-> IF t < sd THEN Q(NumAgents) ELSE Zero,
         onb_qa |-> IF t < sd THEN Q(2 * NumAgents) ELSE Zero,
         ext_rb |-> IF t < sd THEN Q(NumAgents) ELSE Zero,
         ext_qa |-> IF t < sd THEN Q(NumAgents) ELSE Zero,
         se_rb |-> IF t <= sd THEN Q(2 * NumAgents) ELSE Zero,
         se_qa |-> IF t <= sd THEN Q(2 * NumAgents) ELSE Zero,
         term_rb |-> Zero, term_qa |-> Zero]
    ELSE
        [onb_rb |-> IF t < sd THEN Q(NumAgents) ELSE Zero,
         onb_qa |-> IF t < sd THEN Q(2 * NumAgents) ELSE Zero,
         ext_rb |-> Zero, ext_qa |-> Zero,
         se_rb |-> IF t = sd THEN Q(NumAgents) ELSE Zero,
         se_qa |-> IF t = sd THEN Q(2 * NumAgents) ELSE Zero,
         term_rb |-> Zero, term_qa |-> Zero]

\* scheduled_df["total_pledge"]: the known scheduled pledge release of day t
HistTotalPledge(h, t, sd) ==
    IF h = "renewing" /\ t \in 1..(sd + 1) THEN Q(2 * NumAgents)
    ELSE IF h # "empty" /\ t \in {sd, sd + 1} THEN Q(2 * NumAgents) ELSE Zero

\* supply_df (query_supply_stats) row of day t
HistSupply(h, t) ==
    IF h = "empty" THEN [locked_fil |-> Zero, burnt_fil |-> Zero, circulating_fil |-> Zero]
    ELSE IF h = "uneven"
    THEN [locked_fil |-> Q(40), burnt_fil |-> Q(1 + t * t), circulating_fil |-> Q(30)]
    ELSE IF h \in {"seeded", "renewing"}
    THEN [locked_fil |-> Q(40), burnt_fil |-> Q(1 + t), circulating_fil |-> Q(30)]
    ELSE [locked_fil |-> Q(360), burnt_fil |-> Q(1 + t), circulating_fil |-> Q(4)]

HistRecord(h) ==
    [name |-> h,
     rbp0 |-> IF h = "empty" THEN Zero ELSE Frac(4 * NumAgents, 1024),
     qap0 |-> IF h = "empty" THEN Zero ELSE Frac(6 * NumAgents, 1024),
     zero_cum_capped_power |-> IF h = "empty" THEN Zero ELSE Q(8),
     daily_burnt_fil |-> IF h = "empty" THEN Zero
                         ELSE IF h = "uneven"
                         THEN Div(Sub(HistSupply(h, BootDays).burnt_fil,
                                      HistSupply(h, 0).burnt_fil), Q(BootDays))
                         ELSE One]

\* agent_power_distributions: the agents hold equal parts of the historical power
agent_power_pct(a) == Frac(1, NumAgents)

(***************************************************************************)
(* _seed_agents: every agent's ledger is the historical table scaled by    *)
(* its power share; rows after the historical window hold only the known   *)
(* scheduled expirations and scheduled pledge releases.                    *)
(***************************************************************************)
_seed_agents(h, sd, ed) ==
    [a \in Agents |->
        [onboarded_power |-> [t \in 0..(ed - 1) |->
            IF t < sd
            THEN [rb |-> Mul(HistPower(h, t, sd).onb_rb, agent_power_pct(a)),
                  qa |-> Mul(HistPower(h, t, sd).onb_qa, agent_power_pct(a)), dur |-> 0]
            ELSE ZeroPower],
         renewed_power |-> [t \in 0..(ed - 1) |->
            IF t < sd
            THEN [rb |-> Mul(HistPower(h, t, sd).ext_rb, agent_power_pct(a)),
                  qa |-> Mul(HistPower(h, t, sd).ext_qa, agent_power_pct(a)), dur |-> 0]
            ELSE ZeroPower],
         scheduled_expire_power |-> [t \in 0..(ed - 1) |->
            [rb |-> Mul(HistPower(h, t, sd).se_rb, agent_power_pct(a)),
             qa |-> Mul(HistPower(h, t, sd).se_qa, agent_power_pct(a)), dur |-> 0]],
         terminated_power |-> [t \in 0..(ed - 1) |->
            IF t < sd
            THEN [rb |-> Mul(HistPower(h, t, sd).term_rb, agent_power_pct(a)),
                  qa |-> Mul(HistPower(h, t, sd).term_qa, agent_power_pct(a)), dur |-> 0]
            ELSE ZeroPower],
         accounting_df |-> [t \in 0..(ed - 1) |->
            [ZeroAccounting EXCEPT !.scheduled_pledge_release =
                Mul(HistTotalPledge(h, t, sd), agent_power_pct(a))]]]]

NoUpdate ==
    [op |-> "none", day |-> -1,
     share |-> [a \in Agents |-> Zero], reward |-> [a \in Agents |-> Zero],
     rr_sched |-> [a \in Agents |-> Zero], rr_cs |-> [a \in Agents |-> Zero],
     agent_pledge_delta |-> [a \in Agents |-> Zero],
     truncated |-> FALSE]

(***************************************************************************)
(* The state when __init__ has validated its arguments, built the ledger   *)
(* (_initialize_network_description_df, _download_historical_data) and     *)
(* seeded the agents, and is about to fast-forward.                        *)
(***************************************************************************)
Init ==
    /\ compute_cs_from_networkdatastart \in BOOLEAN
    /\ use_historical_gas \in BOOLEAN
    /\ start_day = BootDays
    /\ \E h \in HistNames : hist = HistRecord(h)
    /\ end_day \in {BootDays + ShortSim} \cup
                   (IF hist.name = "seeded" /\ compute_cs_from_networkdatastart
                                         /\ ~use_historical_gas
                    THEN {BootDays + LongSim} ELSE {})
    /\ current_day = start_day
    /\ pc = "fast_forward"
    /\ filecoin_df = [t \in 0..(end_day - 1) |->
          [EmptyRow EXCEPT !.scheduled_pledge_release =
              HistTotalPledge(hist.name, t, start_day)]]
    /\ agents = _seed_agents(hist.name, start_day, end_day)
    /\ upd = NoUpdate
    /\ boot_day = 0
    /\ probe = [f |-> "none"]
    /\ err = "none"

(***************************************************************************)
(* The agents' ledgers as the model reads them (agents/sp_agent.py).       *)
(***************************************************************************)
get_power_at_date(ag, a, t) ==
    [day_onboarded_rb_power_pib |-> ag[a].onboarded_power[t].rb,
     day_onboarded_qa_power_pib |-> ag[a].onboarded_power[t].qa,
     extended_rb_pib |-> ag[a].renewed_power[t].rb,
     extended_qa_pib |-> ag[a].renewed_power[t].qa,
     sched_expire_rb_pib |-> ag[a].scheduled_expire_power[t].rb,
     sched_expire_qa_pib |-> ag[a].scheduled_expire_power[t].qa,
     terminated_rb_pib |-> ag[a].terminated_power[t].rb,
     terminated_qa_pib |-> ag[a].terminated_power[t].qa,
     day_onboarded_qa_duration |-> ag[a].onboarded_power[t].dur,
     extended_qa_duration |-> ag[a].renewed_power[t].dur]

\* the agent's day change of live quality-adjusted power
AgentDayQA(ag, a, t) ==
    Sub(Add(ag[a].onboarded_power[t].qa, ag[a].renewed_power[t].qa),
        Add(ag[a].scheduled_expire_power[t].qa, ag[a].terminated_power[t].qa))

\* cumulative quality-adjusted power of the agent that is still live on day t
RECURSIVE get_active_qa_power_at_date(_, _, _)
get_active_qa_power_at_date(ag, a, t) ==
    IF t < 0 THEN Zero
    ELSE Add(get_active_qa_power_at_date(ag, a, t - 1), AgentDayQA(ag, a, t))

(***************************************************************************)
(* locking.py: the pledge and reward-collateral formulas.  Amounts of FIL  *)
(* that a formula produces are whole units.                                *)
(***************************************************************************)
spec_onboard_ratio(added_power, total_power, baseline_power) ==
    Div(added_power, PyMax(total_power, baseline_power))

compute_new_pledge_for_added_power(day_network_reward, prev_circ_supply, added_qap, total_qa, baseline_power) ==
    LET ratio == spec_onboard_ratio(added_qap, total_qa, baseline_power)
        raw == Add(Mul(Mul(lock_target, day_network_reward), ratio),
                   Mul(Mul(lock_target, prev_circ_supply), ratio))
    IN  IF IsFinite(raw) THEN Q(Floor(raw)) ELSE raw

compute_day_delta_pledge(day_network_reward, prev_circ_supply, onboarded_qap, renewed_qap, total_qa, baseline_power, renewal_rate, scheduled_pledge_release) ==
    LET onboards == compute_new_pledge_for_added_power(day_network_reward, prev_circ_supply,
                                                       onboarded_qap, total_qa, baseline_power)
        renews == compute_new_pledge_for_added_power(day_network_reward, prev_circ_supply,
                                                     renewed_qap, total_qa, baseline_power)
        original == Mul(renewal_rate, scheduled_pledge_release)
    IN  Sub(Add(onboards, PyMax(original, renews)), scheduled_pledge_release)

compute_day_locked_rewards(day_network_reward) ==
    IF IsFinite(day_network_reward)
    THEN Q(Floor(Mul(Frac(3, 4), day_network_reward))) ELSE day_network_reward

compute_day_reward_release(prev_network_locked_reward) ==
    IF IsFinite(prev_network_locked_reward)
    THEN Q(Floor(Div(prev_network_locked_reward, Q(VEST_DAYS)))) ELSE prev_network_locked_reward

(***************************************************************************)
(* _compute_macro: the day's power events summed over the agents.          *)
(***************************************************************************)
AgentSum(st, f) == SumOver([a \in Agents |-> st[a][f]], Agents)

_compute_macro(ag, t) ==
    Bind(Table([a \in Agents |-> get_power_at_date(ag, a, t)]), LAMBDA st :
    Bind(AgentSum(st, "day_onboarded_rb_power_pib"), LAMBDA onb_rb :
    Bind(AgentSum(st, "day_onboarded_qa_power_pib"), LAMBDA onb_qa :
    Bind(AgentSum(st, "extended_rb_pib"), LAMBDA ren_rb :
    Bind(AgentSum(st, "extended_qa_pib"), LAMBDA ren_qa :
    Bind(AgentSum(st, "sched_expire_rb_pib"), LAMBDA se_rb :
    Bind(AgentSum(st, "sched_expire_qa_pib"), LAMBDA se_qa :
    Bind(AgentSum(st, "terminated_rb_pib"), LAMBDA term_rb :
    Bind(AgentSum(st, "terminated_qa_pib"), LAMBDA term_qa :
        [day_onboarded_rbp_pib |-> onb_rb, day_onboarded_qap_pib |-> onb_qa,
         day_renewed_rbp_pib |-> ren_rb, day_renewed_qap_pib |-> ren_qa,
         day_sched_expire_rbp_pib |-> se_rb, day_sched_expire_qap_pib |-> se_qa,
         day_terminated_rbp_pib |-> term_rb, day_terminated_qap_pib |-> term_qa,
         day_network_rbp_pib |-> Sub(Sub(Add(onb_rb, ren_rb), se_rb), term_rb),
         day_network_qap_pib |-> Sub(Sub(Add(onb_qa, ren_qa), se_qa), term_qa)])))))))))

\* the floor that keeps the stored onboarded QA power positive
OnboardedQAFloor(x) == PyMax(x, MIN_VALUE)
\* a total power stored without its floor
TotalPowerNoFloor(x) == x

\* the floor that keeps a stored total power positive
TotalPowerFloor(x) == PyMax(x, MIN_VALUE)

(***************************************************************************)
(* _update_power_metrics: store the day's macro values and the new totals. *)
(***************************************************************************)
_update_power_metrics(df, m, day_idx) ==
    LET r0 == [df[day_idx] EXCEPT
                 !.day_onboarded_rbp_pib = m.day_onboarded_rbp_pib,
                 !.day_onboarded_qap_pib = OnboardedQAFloor(m.day_onboarded_qap_pib),
                 !.day_renewed_rbp_pib = m.day_renewed_rbp_pib,
                 !.day_renewed_qap_pib = m.day_renewed_qap_pib,
                 !.day_sched_expire_rbp_pib = m.day_sched_expire_rbp_pib,
                 !.day_sched_expire_qap_pib = m.day_sched_expire_qap_pib,
                 !.day_terminated_rbp_pib = m.day_terminated_rbp_pib,
                 !.day_terminated_qap_pib = m.day_terminated_qap_pib,
                 !.day_network_rbp_pib = m.day_network_rbp_pib,
                 !.day_network_qap_pib = m.day_network_qap_pib]
        r1 == [r0 EXCEPT
                 !.total_raw_power_eib =
                     TotalPowerFloor(Add(Div(r0.day_network_rbp_pib, Q(1024)),
                                         df[day_idx - 1].total_raw_power_eib)),
                 !.total_qa_power_eib =
                     TotalPowerFloor(Add(Div(r0.day_network_qap_pib, Q(1024)),
                                         df[day_idx - 1].total_qa_power_eib))]
    IN  [df EXCEPT ![day_idx] = r1]

(***************************************************************************)
(* _update_minting: capped power, network time and the reward curves.      *)
(***************************************************************************)
\* a capped power that ignores the baseline
CappedPowerUncapped(total_raw_power, baseline_pwr) == total_raw_power

\* capped_power = min(EIB * total_raw_power_eib, baseline_pwr)
CappedPower(total_raw_power, baseline_pwr) == PyMin(total_raw_power, baseline_pwr)

\* a cumulative capped power that restarts from the day's capped power
CumCappedPowerRestart(capped_power, prev_cum_capped_power) == capped_power

\* cum_capped_power = capped_power + cum_capped_power of the previous row
CumCappedPower(capped_power, prev_cum_capped_power) ==
    Add(capped_power, prev_cum_capped_power)

_update_minting(df, day_idx) ==
    Bind(network_baseline(day_idx), LAMBDA baseline_pwr :
    Bind(CappedPower(Mul(Q(EIB), df[day_idx].total_raw_power_eib), baseline_pwr), LAMBDA capped :
    Bind(CumCappedPower(capped, df[day_idx - 1].cum_capped_power), LAMBDA cum_capped :
    Bind(network_time(cum_capped), LAMBDA nt :
    Bind(cum_baseline_reward(nt), LAMBDA cbr :
    Bind(Add(cbr, cum_simple_reward(day_idx)), LAMBDA cnr :
        [df EXCEPT ![day_idx] = [@ EXCEPT
            !.capped_power = capped,
            !.cum_capped_power = cum_capped,
            !.network_time = nt,
            !.cum_baseline_reward = cbr,
            !.cum_network_reward = cnr,
            !.day_network_reward = Sub(cnr, df[day_idx - 1].cum_network_reward),
            !.day_simple_reward = Sub(cum_simple_reward(day_idx),
                                      cum_simple_reward(day_idx - 1))]]))))))

(***************************************************************************)
(* _aggregate_terminations: add every agent's burned collateral of the day.*)
(***************************************************************************)
_aggregate_terminations(df, ag, day_idx) ==
    [df EXCEPT ![day_idx].burn_from_terminations =
        Add(@, SumOver([a \in Agents |-> ag[a].accounting_df[day_idx].termination_burned_FIL],
                       Agents))]

(***************************************************************************)
(* The renewal ratio of one agent and day.  _update_sched_expire_pledge    *)
(* and _update_circulating_supply each compute it with their own copy of   *)
(* the rule.  The entries of a ledger are Python floats when they come     *)
(* from the rows of a table with a date column (SPAgentBacktest reads them *)
(* with iterrows) and numpy float64 when they come from a numeric array:   *)
(* pyfloat tells which.  A Python float divided by 0 raises                *)
(* ZeroDivisionError; a numpy float64 divided by 0 is an infinity or NaN.  *)
(* The result is the value v and whether the division raised.              *)
(***************************************************************************)
agent_rr_sched_expire(agent_day_renewed_qap, agent_day_se_qap, pyfloat) ==
    IF Eq(agent_day_se_qap, Zero) /\ Lt(Zero, agent_day_renewed_qap)
    THEN [v |-> NpClip(One, Zero, One), raised |-> FALSE]
    ELSE IF Lt(agent_day_se_qap, Zero) \/ Eq(agent_day_renewed_qap, Zero)
    THEN [v |-> NpClip(Zero, Zero, One), raised |-> FALSE]
    ELSE IF pyfloat /\ Eq(agent_day_se_qap, Zero)
    THEN [v |-> NaN, raised |-> TRUE]
    ELSE [v |-> NpClip(Div(agent_day_renewed_qap, agent_day_se_qap), Zero, One),
          raised |-> FALSE]

agent_rr_circ_supply(agent_renewed_qap, agent_se_qap, pyfloat) ==
    IF Eq(agent_se_qap, Zero) /\ Lt(Zero, agent_renewed_qap)
    THEN [v |-> NpClip(One, Zero, One), raised |-> FALSE]
    ELSE IF Lt(agent_se_qap, Zero) \/ Eq(agent_renewed_qap, Zero)
    THEN [v |-> NpClip(Zero, Zero, One), raised |-> FALSE]
    ELSE IF pyfloat /\ Eq(agent_se_qap, Zero)
    THEN [v |-> NaN, raised |-> TRUE]
    ELSE [v |-> NpClip(Div(agent_renewed_qap, agent_se_qap), Zero, One),
          raised |-> FALSE]

\* the two arguments of the ratio as _update_circulating_supply reads them
\* from the agent's power arrays.  No entry of the simulated ledgers is
\* negative, so no division below has a zero divisor and both kinds of
\* float give the same ratio there.
AgentRenewalRatio(ag, a, t) ==
    agent_rr_circ_supply(Mul(ag[a].renewed_power[t].qa, Q(PIB)),
                         Mul(ag[a].scheduled_expire_power[t].qa, Q(PIB)), FALSE).v

\* the product of the agents' renewal ratios, multiplied in list order
RECURSIVE aggregate_rr(_, _)
aggregate_rr(rr, k) == IF k = 0 THEN One ELSE Mul(aggregate_rr(rr, k - 1), rr[k])

AddAt(tbl, t, col, v) == [tbl EXCEPT ![t][col] = Add(@, v)]

(***************************************************************************)
(* _update_sched_expire_pledge, the part of one agent: the pledge locked   *)
(* for today's onboarding and renewal, and its release at the end of the   *)
(* sector duration.                                                        *)
(***************************************************************************)
(***************************************************************************)
(* The two places that compute the pledge required for added               *)
(* quality-adjusted power.  The result is the pledge v and whether the     *)
(* onboarding-ratio formula was called for it.                             *)
(***************************************************************************)
\* a lookup of the row of the day itself
same_day_idx(filecoin_df_idx) == filecoin_df_idx

\* prev_day_idx = filecoin_df_idx - 1
prev_day_idx(filecoin_df_idx) == filecoin_df_idx - 1

\* estimate_pledge_for_qa_power(date_in, qa_power_pib): from the row before
estimate_pledge_for_qa_power(df, day_idx, qa_power_pib) ==
    LET prev == df[prev_day_idx(day_idx)]
    IN  IF Eq(qa_power_pib, Zero)
        THEN [v |-> Mul(prev.day_pledge_per_QAP, Div(qa_power_pib, SECTOR_SIZE)),
              ratio_called |-> FALSE]
        ELSE [v |-> compute_new_pledge_for_added_power(
                        prev.day_network_reward, prev.circ_supply,
                        Mul(qa_power_pib, Q(PIB)),
                        Mul(Mul(prev.total_qa_power_eib, Q(1024)), Q(PIB)),
                        Mul(Div(network_baseline(prev_day_idx(day_idx)), Q(PIB)), Q(PIB))),
              ratio_called |-> TRUE]

\* _update_sched_expire_pledge: the pledge locked for an agent's onboarded
\* (renewed) power of the day, day_qap_pib
locked_pledge_for_qa_power(df, day_idx, day_qap_pib) ==
    [v |-> compute_new_pledge_for_added_power(
               df[day_idx].day_network_reward, df[day_idx - 1].circ_supply,
               Mul(day_qap_pib, Q(PIB)),
               Mul(df[day_idx].total_qa_power_eib, Q(EIB)),
               network_baseline(day_idx)),
     ratio_called |-> TRUE]

\* a renewal that locks the newly computed pledge without the clamp
RenewsLockedNoClamp(original_pledge_for_renew, renews_locked) == renews_locked

\* renews_locked = max(original_pledge_for_renew, renews_locked)
RenewsLocked(original_pledge_for_renew, renews_locked) ==
    PyMax(original_pledge_for_renew, renews_locked)

AgentPledge(df, ag, a, day_idx) ==
    Bind(get_power_at_date(ag, a, day_idx), LAMBDA st :
    Bind(locked_pledge_for_qa_power(df, day_idx, st.day_onboarded_qa_power_pib).v, LAMBDA onboards_locked :
    Bind(locked_pledge_for_qa_power(df, day_idx, st.extended_qa_pib).v, LAMBDA renews_new :
    Bind(ag[a].accounting_df[day_idx].scheduled_pledge_release, LAMBDA original_pledge :
    Bind(agent_rr_sched_expire(Mul(st.extended_qa_pib, Q(PIB)),
                               Mul(st.sched_expire_qa_pib, Q(PIB)), FALSE).v, LAMBDA agent_rr :
    Bind(Mul(original_pledge, agent_rr), LAMBDA original_pledge_for_renew :
        [onboards_locked |-> onboards_locked,
         renews_locked |-> RenewsLocked(original_pledge_for_renew, renews_new),
         original_pledge_for_renew |-> original_pledge_for_renew,
         agent_rr |-> agent_rr,
         onboard_at |-> day_idx + st.day_onboarded_qa_duration,
         renew_at |-> day_idx + st.extended_qa_duration]))))))

\* a deferred release that is never written
ReleaseNever(t, len, update_filecoin_df) == FALSE

\* whether a deferred release dated row t is written
ReleaseInRange(t, len, update_filecoin_df) == t < len /\ update_filecoin_df

AgentAccountingAfterPledge(acc, p, day_idx, len, update_filecoin_df) ==
    LET a1 == AddAt(acc, day_idx, "onboard_pledge_FIL", p.onboards_locked)
        a2 == IF ReleaseInRange(p.onboard_at, len, update_filecoin_df)
              THEN AddAt(AddAt(a1, p.onboard_at, "onboard_scheduled_pledge_release_FIL",
                               p.onboards_locked),
                         p.onboard_at, "scheduled_pledge_release", p.onboards_locked)
              ELSE a1
        a3 == AddAt(a2, day_idx, "renew_pledge_FIL", p.renews_locked)
    IN  IF ReleaseInRange(p.renew_at, len, update_filecoin_df)
        THEN AddAt(AddAt(a3, p.renew_at, "renew_scheduled_pledge_release_FIL",
                         p.renews_locked),
                   p.renew_at, "scheduled_pledge_release", p.renews_locked)
        ELSE a3

RECURSIVE NetworkAfterPledge(_, _, _, _, _, _)
NetworkAfterPledge(df, p, day_idx, len, update_filecoin_df, k) ==
    IF k = 0 THEN df
    ELSE LET d0 == NetworkAfterPledge(df, p, day_idx, len, update_filecoin_df, k - 1)
             d1 == IF ReleaseInRange(p[k].onboard_at, len, update_filecoin_df)
                   THEN AddAt(d0, p[k].onboard_at, "scheduled_pledge_release",
                              p[k].onboards_locked)
                   ELSE d0
             d2 == IF ReleaseInRange(p[k].renew_at, len, update_filecoin_df)
                   THEN AddAt(d1, p[k].renew_at, "scheduled_pledge_release",
                              p[k].renews_locked)
                   ELSE d1
         IN  AddAt(d2, day_idx, "original_pledge", p[k].original_pledge_for_renew)
\* the network's renewal rate taken as the mean of the agents' ratios
NetworkRenewalRateMean(rr) == Div(SumOver(rr, Agents), Q(NumAgents))

\* the network-wide renewal rate of the day from the agents' ratios
NetworkRenewalRate(rr) == aggregate_rr(rr, NumAgents)

_update_sched_expire_pledge(df, ag, day_idx, update_filecoin_df) ==
    Bind(Cardinality(DOMAIN df), LAMBDA len :
    Bind(Table([a \in Agents |-> AgentPledge(df, ag, a, day_idx)]), LAMBDA p :
    Bind(NetworkAfterPledge(df, p, day_idx, len, update_filecoin_df, NumAgents), LAMBDA d1 :
        [df |-> [d1 EXCEPT ![day_idx].renewal_rate =
                    NetworkRenewalRate([a \in Agents |-> p[a].agent_rr])],
         ag |-> Table([a \in Agents |-> [ag[a] EXCEPT !.accounting_df =
                    AgentAccountingAfterPledge(@, p[a], day_idx, len, update_filecoin_df)]]),
         rr |-> Table([a \in Agents |-> p[a].agent_rr])])))

(***************************************************************************)
(* _update_circulating_supply: the day's locked collateral, gas burn and   *)
(* circulating supply.                                                     *)
(***************************************************************************)
\* a pledge release that is consumed again on the day after its date
agent_scheduled_pledge_release_twice(ag, a, day_idx) ==
    Add(ag[a].accounting_df[day_idx].scheduled_pledge_release,
        ag[a].accounting_df[day_idx - 1].scheduled_pledge_release)

\* agent.accounting_df["scheduled_pledge_release"].iloc[agent_accounting_df_idx]
agent_scheduled_pledge_release(ag, a, day_idx) ==
    ag[a].accounting_df[day_idx].scheduled_pledge_release

AgentPledgeDelta(df, ag, a, day_idx) ==
    compute_day_delta_pledge(
        df[day_idx].day_network_reward,
        df[day_idx - 1].circ_supply,
        Mul(ag[a].onboarded_power[day_idx].qa, Q(PIB)),
        Mul(ag[a].renewed_power[day_idx].qa, Q(PIB)),
        Mul(df[day_idx].total_qa_power_eib, Q(EIB)),
        network_baseline(day_idx),
        AgentRenewalRatio(ag, a, day_idx),
        agent_scheduled_pledge_release(ag, a, day_idx))

\* a day's change of locked pledge that keeps the first listed agent's delta
DayPledgeDeltaFirst(deltas) == deltas[1]

\* the day's change of locked pledge: the agents' deltas added in list order
DayPledgeDelta(deltas) == SumOver(deltas, Agents)
\* locked collateral that forgets the locked rewards
NetworkLockedPledgeOnly(prev_network_locked, pledge_delta, reward_delta) ==
    Add(prev_network_locked, pledge_delta)

\* the stored total of locked collateral
NetworkLocked(prev_network_locked, pledge_delta, reward_delta) ==
    Add(Add(prev_network_locked, pledge_delta), reward_delta)

\* the gas burn of a day whose entry is still 0
GasBurn(df, day_idx, daily_burnt_fil) ==
    IF Eq(df[day_idx].network_gas_burn, Zero)
    THEN Add(df[day_idx - 1].network_gas_burn, daily_burnt_fil)
    ELSE df[day_idx].network_gas_burn

\* the circulating supply is never stored negative
CircSupplyFloor(x) == PyMax(x, Zero)

CircSupplyBalance(row, t) ==
    Sub(Sub(Sub(Add(Add(disbursed_reserve, row.cum_network_reward), total_vest(t)),
                row.network_locked),
            row.network_gas_burn),
        row.burn_from_terminations)

_update_circulating_supply(df, ag, day_idx, daily_burnt_fil) ==
    Bind(df[day_idx - 1], LAMBDA prev :
    Bind(Table([a \in Agents |-> AgentPledgeDelta(df, ag, a, day_idx)]), LAMBDA deltas :
    Bind(DayPledgeDelta(deltas), LAMBDA pledge_delta :
    Bind(SumOver([a \in Agents |-> Add(ag[a].accounting_df[day_idx].onboard_pledge_FIL,
                                       ag[a].accounting_df[day_idx].renew_pledge_FIL)],
                 Agents), LAMBDA day_locked_pledge :
    Bind(SumOver([a \in Agents |-> ag[a].accounting_df[day_idx].renew_pledge_FIL],
                 Agents), LAMBDA day_renewed_pledge :
    Bind(Sub(compute_day_locked_rewards(df[day_idx].day_network_reward),
             compute_day_reward_release(prev.network_locked_reward)), LAMBDA reward_delta :
    Bind([df[day_idx] EXCEPT
            !.pledge_delta = pledge_delta,
            !.reward_delta = reward_delta,
            !.day_locked_pledge = day_locked_pledge,
            !.day_renewed_pledge = day_renewed_pledge,
            !.network_locked_pledge = Add(prev.network_locked_pledge, pledge_delta),
            !.network_locked_reward = Add(prev.network_locked_reward, reward_delta),
            !.network_locked = NetworkLocked(prev.network_locked, pledge_delta,
                                             reward_delta),
            !.network_gas_burn = GasBurn(df, day_idx, daily_burnt_fil)], LAMBDA r1 :
        [df |-> [df EXCEPT ![day_idx] =
                    [r1 EXCEPT !.circ_supply = CircSupplyFloor(CircSupplyBalance(r1, day_idx))]],
         deltas |-> deltas,
         rr |-> Table([a \in Agents |-> AgentRenewalRatio(ag, a, day_idx)])])))))))

(***************************************************************************)
(* _update_generated_quantities: pledge and reward per sector.  The two    *)
(* columns are kept per PiB of sectors (the per-sector amount times the    *)
(* number of sectors in a PiB), which keeps them within the integers' width.*)
(* The floor of the two denominators is MIN_VALUE bytes, below every       *)
(* positive power of the model: a positive power is its own floor, and the *)
(* quotient of a non-zero amount by the floor exceeds every amount of the  *)
(* ledger and is recorded as the infinity of its sign.                     *)
(***************************************************************************)
PerPiB(x) == Mul(Mul(Div(One, SECTOR_SIZE), SECTOR_SIZE), x)

DivByFlooredBytes(x, power) ==
    IF IsNaN(power) \/ Lt(Zero, power) THEN Div(x, power)
    ELSE IF IsNaN(x) THEN NaN
    ELSE IF x.n = 0 THEN Zero
    ELSE [n |-> Sgn(x.n), d |-> 0]

_update_generated_quantities(df, day_idx) ==
    LET row == df[day_idx]
        day_onboarded_power_QAP == Mul(row.day_onboarded_qap_pib, Q(PIB))
        network_QAP == Mul(row.total_qa_power_eib, Q(EIB))
    IN  [df EXCEPT ![day_idx] = [@ EXCEPT
            !.day_pledge_per_QAP =
                DivByFlooredBytes(
                    PerPiB(Sub(row.day_locked_pledge, row.day_renewed_pledge)),
                    day_onboarded_power_QAP),
            !.day_rewards_per_sector =
                DivByFlooredBytes(PerPiB(row.day_network_reward), network_QAP)]]

(***************************************************************************)
(* _get_agent_power_proportion: every agent's share of the live            *)
(* quality-adjusted power, normalised by the sum of the shares.            *)
(***************************************************************************)
\* the divisor that normalises the proportions
ProportionNorm(vec) == SumOver(vec, Agents)

_get_agent_power_proportion(df, ag, day_idx) ==
    LET total_network_qap == Mul(df[day_idx].total_qa_power_eib, Q(EIB))
        vec == Table([a \in Agents |->
                  PyMin(Div(Mul(get_active_qa_power_at_date(ag, a, day_idx), Q(PIB)),
                            total_network_qap), One)])
        norm == ProportionNorm(vec)
    IN  Table([a \in Agents |-> Div(vec[a], norm)])

(***************************************************************************)
(* _update_agents: pay the day's reward to the agents; a quarter vests at  *)
(* once, the rest in equal parts over the following VEST_DAYS rows.        *)
(***************************************************************************)
ImmediateReward(agent_reward) == Mul(agent_reward, Frac(1, 4))
\* an installment that spreads the whole reward over the vesting rows
VestingInstallmentWhole(agent_reward) == Div(agent_reward, Q(VEST_DAYS))

VestingInstallment(agent_reward) == Div(Mul(agent_reward, Frac(3, 4)), Q(VEST_DAYS))

\* the agent's reward of the day from its share
AgentReward(total_day_rewards, agent_reward_ratio) == Mul(total_day_rewards, agent_reward_ratio)

\* whether row t receives an installment of a reward of day idx: a .loc slice
\* keeps the labels idx+1 .. idx+VEST_DAYS that exist
VestingRows(t, idx, len) == idx + 1 <= t /\ t <= idx + VEST_DAYS /\ t < len

RewardedAccounting(acc, idx, len, agent_reward) ==
    Table([t \in DOMAIN acc |->
        IF t = idx
        THEN [acc[t] EXCEPT
                !.reward_FIL = Add(@, ImmediateReward(agent_reward)),
                !.full_reward_for_power_FIL = Add(@, agent_reward)]
        ELSE IF VestingRows(t, idx, len)
        THEN [acc[t] EXCEPT !.reward_FIL = Add(@, VestingInstallment(agent_reward))]
        ELSE acc[t]])

_update_agents(df, ag, day_idx) ==
    Bind(df[day_idx].day_network_reward, LAMBDA total_day_rewards :
    Bind(_get_agent_power_proportion(df, ag, day_idx), LAMBDA ratio :
    Bind(Table([a \in Agents |-> AgentReward(total_day_rewards, ratio[a])]), LAMBDA reward :
        [ag |-> Table([a \in Agents |-> [ag[a] EXCEPT !.accounting_df =
                    RewardedAccounting(@, day_idx, Cardinality(DOMAIN df), reward[a])]]),
         share |-> ratio,
         reward |-> reward])))

_zero_agent_rewards(ag) ==
    [a \in Agents |-> [ag[a] EXCEPT !.accounting_df =
        [t \in DOMAIN ag[a].accounting_df |->
            [ag[a].accounting_df[t] EXCEPT !.reward_FIL = Zero]]]]

(***************************************************************************)
(* _fast_forward_to_simulation_start, first part: replay the historical    *)
(* power in bulk, then seed the circulating-supply columns.                *)
(***************************************************************************)
RECURSIVE CumSum(_, _)
CumSum(f, t) == IF t < 0 THEN Zero ELSE Add(CumSum(f, t - 1), f[t])

\* diff().fillna(method='backfill'): row 0 takes the difference of row 1
Diff(f, t, sd) ==
    IF t > 0 THEN Sub(f[t], f[t - 1]) ELSE IF sd > 1 THEN Sub(f[1], f[0]) ELSE NaN

PowerStats(ag, h, sd) ==
    Bind(Table([t \in 0..(sd - 1) |-> _compute_macro(ag, t)]), LAMBDA m :
    Bind(Table([t \in 0..(sd - 1) |-> m[t].day_network_rbp_pib]), LAMBDA rb :
    Bind(Table([t \in 0..(sd - 1) |-> m[t].day_network_qap_pib]), LAMBDA qa :
    Bind(Table([t \in 0..(sd - 1) |->
            Add(Div(CumSum(rb, t), Q(1024)), h.rbp0)]), LAMBDA total_raw :
    Bind(Table([t \in 0..(sd - 1) |->
            Add(Div(CumSum(qa, t), Q(1024)), h.qap0)]), LAMBDA total_qa :
    Bind(Table([t \in 0..(sd - 1) |->
            IF Lt(network_baseline(t), Mul(Q(EIB), total_raw[t]))
            THEN network_baseline(t) ELSE Mul(Q(EIB), total_raw[t])]), LAMBDA capped :
    Bind(Table([t \in 0..(sd - 1) |->
            Add(CumSum(capped, t), h.zero_cum_capped_power)]), LAMBDA cum_capped :
    Bind(Table([t \in 0..(sd - 1) |-> network_time(cum_capped[t])]), LAMBDA nt :
    Bind(Table([t \in 0..(sd - 1) |-> cum_baseline_reward(nt[t])]), LAMBDA cbr :
    Bind(Table([t \in 0..(sd - 1) |-> Add(cbr[t], cum_simple_reward(t))]), LAMBDA cnr :
    Bind(Table([t \in 0..(sd - 1) |-> cum_simple_reward(t)]), LAMBDA csr :
        [t \in 0..(sd - 1) |->
            m[t] @@
            [total_raw_power_eib |-> total_raw[t],
             total_qa_power_eib |-> total_qa[t],
             capped_power |-> capped[t],
             cum_capped_power |-> cum_capped[t],
             network_time |-> nt[t],
             cum_baseline_reward |-> cbr[t],
             cum_network_reward |-> cnr[t],
             day_network_reward |-> Diff(cnr, t, sd),
             day_simple_reward |-> Diff(csr, t, sd)]])))))))))))

PowerColumns ==
    {"day_onboarded_rbp_pib", "day_onboarded_qap_pib", "day_renewed_rbp_pib",
     "day_renewed_qap_pib", "day_sched_expire_rbp_pib", "day_sched_expire_qap_pib",
     "day_terminated_rbp_pib", "day_terminated_qap_pib", "day_network_rbp_pib",
     "day_network_qap_pib", "total_raw_power_eib", "total_qa_power_eib", "capped_power",
     "cum_capped_power", "network_time", "cum_baseline_reward", "cum_network_reward",
     "day_network_reward", "day_simple_reward"}

\* the ledger after the bulk replay and the merge of the future scheduled
\* expirations, with the supply columns created at 0
FastForwardPower(df, ag, h, sd) ==
    Bind(PowerStats(ag, h, sd), LAMBDA ps :
        [t \in DOMAIN df |->
            Bind(IF t < sd
                 THEN [c \in DOMAIN df[t] |->
                         IF c \in PowerColumns THEN ps[t][c] ELSE df[t][c]]
                 ELSE Bind(_compute_macro(ag, t), LAMBDA m :
                         [df[t] EXCEPT
                             !.day_sched_expire_rbp_pib = m.day_sched_expire_rbp_pib,
                             !.day_sched_expire_qap_pib = m.day_sched_expire_qap_pib]),
                 LAMBDA r0 :
                [r0 EXCEPT !.network_gas_burn = Zero,
                           !.day_locked_pledge = Zero, !.day_renewed_pledge = Zero,
                           !.network_locked_pledge = Zero, !.network_locked_reward = Zero,
                           !.original_pledge = Zero, !.renewal_rate = Zero])])

\* compute_cs_from_networkdatastart = True: seed row 0 from the supply table
SeedSupplyFromStart(df, h, sd, historical_gas) ==
    [t \in DOMAIN df |->
        LET r0 == IF historical_gas /\ t <= sd
                  THEN [df[t] EXCEPT !.network_gas_burn = HistSupply(h.name, t).burnt_fil]
                  ELSE df[t]
        IN  IF t = 0
            THEN [r0 EXCEPT
                    !.network_locked_pledge = Div(HistSupply(h.name, 0).locked_fil, Q(2)),
                    !.network_locked_reward = Div(HistSupply(h.name, 0).locked_fil, Q(2)),
                    !.network_locked = HistSupply(h.name, 0).locked_fil,
                    !.circ_supply = HistSupply(h.name, 0).circulating_fil]
            ELSE r0]

\* compute_cs_from_networkdatastart = False: take locked and burnt FIL of the
\* historical window from the supply table and derive the circulating supply
SeedSupplyFromHistory(df, h, sd) ==
    LET d1 == [t \in DOMAIN df |->
                 IF t <= sd
                 THEN LET r1 == [df[t] EXCEPT
                                   !.network_locked = HistSupply(h.name, t).locked_fil,
                                   !.network_gas_burn = HistSupply(h.name, t).burnt_fil]
                      IN  [r1 EXCEPT !.circ_supply =
                              Sub(Sub(Add(Add(disbursed_reserve, r1.cum_network_reward),
                                          total_vest(t)),
                                      r1.network_locked),
                                  r1.network_gas_burn)]
                 ELSE df[t]]
        locked_fil_zero == d1[sd - 1].network_locked
    IN  [d1 EXCEPT ![sd] = [@ EXCEPT
            !.network_locked_pledge = Div(locked_fil_zero, Q(2)),
            !.network_locked_reward = Div(locked_fil_zero, Q(2)),
            !.network_locked = locked_fil_zero]]

(***************************************************************************)
(* The constructor's fast-forward as steps: the bulk replay with the       *)
(* seeding of the supply columns, one step per day of the supply loop      *)
(* (compute_cs_from_networkdatastart only), and _zero_agent_rewards.       *)
(***************************************************************************)
FastForward ==
    /\ pc = "fast_forward" /\ err = "none"
    /\ \E d0 \in {FastForwardPower(filecoin_df, agents, hist, start_day)} :
          filecoin_df' =
              IF compute_cs_from_networkdatastart
              THEN SeedSupplyFromStart(d0, hist, start_day, use_historical_gas)
              ELSE SeedSupplyFromHistory(d0, hist, start_day)
    /\ pc' = IF compute_cs_from_networkdatastart THEN "cs_loop" ELSE "zero_rewards"
    /\ boot_day' = 1
    /\ UNCHANGED <<cfg, current_day, agents, upd, probe, err>>

\* one iteration of: for day_idx in range(start_idx+1, end_idx)
FastForwardSupplyDay ==
    /\ pc = "cs_loop" /\ err = "none" /\ boot_day < start_day
    /\ \E s \in {_update_sched_expire_pledge(filecoin_df, agents, boot_day, FALSE)} :
       \E c \in {_update_circulating_supply(s.df, s.ag, boot_day, hist.daily_burnt_fil)} :
       \E g \in {_update_generated_quantities(c.df, boot_day)} :
       \E u \in {_update_agents(g, s.ag, boot_day)} :
          /\ filecoin_df' = g
          /\ agents' = u.ag
          /\ upd' = [op |-> "fast_forward", day |-> boot_day,
                     share |-> u.share, reward |-> u.reward,
                     rr_sched |-> s.rr, rr_cs |-> c.rr,
                     agent_pledge_delta |-> c.deltas,
                     truncated |-> boot_day + VEST_DAYS >= end_day]
    /\ boot_day' = boot_day + 1
    /\ UNCHANGED <<cfg, current_day, pc, probe, err>>

FastForwardSupplyDone ==
    /\ pc = "cs_loop" /\ err = "none" /\ boot_day >= start_day
    /\ pc' = "zero_rewards"
    /\ UNCHANGED <<cfg, current_day, filecoin_df, agents, upd, boot_day, probe, err>>

ZeroAgentRewards ==
    /\ pc = "zero_rewards" /\ err = "none"
    /\ agents' = _zero_agent_rewards(agents)
    /\ pc' = "running"
    /\ UNCHANGED <<cfg, current_day, filecoin_df, upd, boot_day, probe, err>>

(***************************************************************************)
(* The agents' day (schedule.step()): every agent records the onboarding   *)
(* and the renewal its policy asks for.  An onboarding or renewal of       *)
(* duration dur schedules the expiration of the same power dur days later. *)
(* An agent's policy is fixed when it is built (DCAAgent's constructor     *)
(* arguments); whether it acts on a day is the policy's decision (an       *)
(* NPVAgent or ROIAgent acts only when its estimate is good enough).       *)
(***************************************************************************)
Idle == [onb_rb |-> Zero, onb_qa |-> Zero, onb_dur |-> 0, ren_frac |-> Zero, ren_dur |-> 0]

\* odd agents seal short sectors with deals and renew half of what expires;
\* even agents seal long CC sectors and renew everything
Policy(a) ==
    IF a % 2 = 1
    THEN [onb_rb |-> One, onb_qa |-> Q(2), onb_dur |-> ShortDuration,
          ren_frac |-> Frac(1, 2), ren_dur |-> LongDuration]
    ELSE [onb_rb |-> One, onb_qa |-> One, onb_dur |-> LongDuration,
          ren_frac |-> One, ren_dur |-> ShortDuration]

Requests(acts) == Table([a \in Agents |-> IF acts[a] THEN Policy(a) ELSE Idle])

ScheduleExpiration(se, t, len, rb, qa) ==
    IF t < len
    THEN [se EXCEPT ![t] = [rb |-> Add(@.rb, rb), qa |-> Add(@.qa, qa), dur |-> 0]]
    ELSE se

AgentStep(agent, r, t, len) ==
    LET ren_rb == Mul(agent.scheduled_expire_power[t].rb, r.ren_frac)
        ren_qa == Mul(agent.scheduled_expire_power[t].qa, r.ren_frac)
        se1 == ScheduleExpiration(agent.scheduled_expire_power, t + r.onb_dur, len,
                                  r.onb_rb, r.onb_qa)
        se2 == ScheduleExpiration(se1, t + r.ren_dur, len, ren_rb, ren_qa)
    IN  [agent EXCEPT
            !.onboarded_power[t] = [rb |-> r.onb_rb, qa |-> r.onb_qa, dur |-> r.onb_dur],
            !.renewed_power[t] = [rb |-> ren_rb, qa |-> ren_qa, dur |-> r.ren_dur],
            !.scheduled_expire_power = se2]

(***************************************************************************)
(* step(): one simulated day.                                              *)
(***************************************************************************)
\* _update_circulating_supply on the result of _update_sched_expire_pledge
SupplyAfterPledge(s, day_idx, daily_burnt_fil) ==
    _update_circulating_supply(s.df, s.ag, day_idx, daily_burnt_fil).df

\* the network updates of step() in their order, for the agent list ag whose
\* policies have acted: the ledger row of the day
NetworkRow(df, ag, day_idx, daily_burnt_fil) ==
    _update_generated_quantities(
        SupplyAfterPledge(
            _update_sched_expire_pledge(
                _aggregate_terminations(
                    _update_minting(
                        _update_power_metrics(df, _compute_macro(ag, day_idx), day_idx),
                        day_idx),
                    ag, day_idx),
                ag, day_idx, TRUE),
            day_idx, daily_burnt_fil),
        day_idx)[day_idx]

\* the orders the model's agent list self.agents can have
AgentOrders == {f \in [Agents -> Agents] : \A a, b \in Agents : a # b => f[a] # f[b]}

\* the agent list in the order f
Reordered(ag, f) == [k \in Agents |-> ag[f[k]]]

\* step() in which the agents' policies, before they record their power,
\* have left the ledger df0 and the agent tables ag0
StepOn(df0, ag0) ==
    /\ pc = "running" /\ err = "none"
    /\ current_day < end_day
    /\ current_day - start_day < MaxSteps
    /\ \E acts \in [Agents -> BOOLEAN] :
       \E req \in {Requests(acts)} :
       \E ag1 \in {Table([a \in Agents |->
                        AgentStep(ag0[a], req[a], current_day, end_day)])} :
       \E m \in {_compute_macro(ag1, current_day)} :
       \E d1 \in {_update_power_metrics(df0, m, current_day)} :
       \E d2 \in {_update_minting(d1, current_day)} :
       \E d3 \in {_aggregate_terminations(d2, ag1, current_day)} :
       \E s \in {_update_sched_expire_pledge(d3, ag1, current_day, TRUE)} :
       \E c \in {_update_circulating_supply(s.df, s.ag, current_day,
                                             hist.daily_burnt_fil)} :
       \E g \in {_update_generated_quantities(c.df, current_day)} :
       \E u \in {_update_agents(g, s.ag, current_day)} :
          /\ filecoin_df' = g
          /\ agents' = u.ag
          /\ upd' = [op |-> "step", day |-> current_day,
                     share |-> u.share, reward |-> u.reward,
                     rr_sched |-> s.rr, rr_cs |-> c.rr,
                     agent_pledge_delta |-> c.deltas,
                     truncated |-> current_day + VEST_DAYS >= end_day]
    /\ current_day' = current_day + 1
    /\ UNCHANGED <<cfg, pc, boot_day, probe, err>>

\* step() with the policies of the model's agents
Step == StepOn(filecoin_df, agents)

\* a step() at the end date that moves the date on
StepPastEndAdvances ==
    /\ pc = "running" /\ err = "none"
    /\ current_day = end_day
    /\ current_day' = current_day + 1
    /\ err' = "IndexError"
    /\ UNCHANGED <<cfg, pc, filecoin_df, agents, upd, boot_day, probe>>

\* step() called when current_date = end_date: the lookup of today's row in
\* _update_global_forecasts finds no row and raises
StepPastEnd ==
    /\ pc = "running" /\ err = "none"
    /\ current_day = end_day
    /\ err' = "IndexError"
    /\ UNCHANGED <<cfg, current_day, pc, filecoin_df, agents, upd, boot_day, probe>>

Next ==
    \/ FastForward
    \/ FastForwardSupplyDay
    \/ FastForwardSupplyDone
    \/ ZeroAgentRewards
    \/ Step
    \/ StepPastEnd

Spec == Init /\ [][Next]_vars

(***************************************************************************)
(* _fast_forward_to_simulation_start called again on the constructed       *)
(* model.  The ledger already holds the columns of power_stats_df, so the  *)
(* merge on 'date' keeps both sets under suffixed names (c_x, c_y) and no  *)
(* column is left under the name c: a read of c finds no column.  The      *)
(* write of the future scheduled expirations then names a column that does *)
(* not exist: depending on the pandas version it raises KeyError, or it    *)
(* creates the column and the run goes on to the supply columns, where the *)
(* first read of a power column raises KeyError.                           *)
(***************************************************************************)
ScheduledExpireColumns == {"day_sched_expire_rbp_pib", "day_sched_expire_qap_pib"}

\* the ledger after the merge: no power column under its own name
RenamedByMerge(df) ==
    [t \in DOMAIN df |->
        [c \in DOMAIN df[t] |-> IF c \in PowerColumns THEN NaN ELSE df[t][c]]]

\* the ledger z of a replay, without the power columns that the merge
\* renamed; the future scheduled expirations were written to new columns
LostPowerColumns(z, sd) ==
    [t \in DOMAIN z |->
        [c \in DOMAIN z[t] |->
            IF c \in PowerColumns /\ ~(c \in ScheduledExpireColumns /\ t >= sd)
            THEN NaN ELSE z[t][c]]]

\* the second run from the zeroed supply columns d0 up to the read that
\* raises
RerunUpToSupply(d0, h, sd, from_start, historical_gas) ==
    IF from_start
    THEN SeedSupplyFromStart(d0, h, sd, historical_gas)
    ELSE [t \in DOMAIN d0 |->
             IF t <= sd
             THEN [d0[t] EXCEPT
                     !.network_locked = HistSupply(h.name, t).locked_fil,
                     !.network_gas_burn = HistSupply(h.name, t).burnt_fil]
             ELSE d0[t]]

RerunFastForward ==
    /\ pc = "running" /\ err = "none"
    /\ current_day = start_day
    /\ probe.f = "none"
    /\ probe' = [f |-> "rerun", first |-> filecoin_df]
    /\ \/ filecoin_df' = RenamedByMerge(filecoin_df)
       \/ \E z \in {FastForwardPower(filecoin_df, agents, hist, start_day)} :
          \E d0 \in {LostPowerColumns(z, start_day)} :
             filecoin_df' = RerunUpToSupply(d0, hist, start_day,
                                            compute_cs_from_networkdatastart,
                                            use_historical_gas)
    /\ err' = "KeyError"
    /\ UNCHANGED <<cfg, current_day, pc, agents, upd, boot_day>>

NextRerun ==
    \/ Next
    \/ RerunFastForward

SpecRerun == Init /\ [][NextRerun]_vars

(***************************************************************************)
(* step() call by call.  Between two calls of step() pc is "running";      *)
(* inside step() pc names the call that comes next.                        *)
(***************************************************************************)
StepCalls ==
    <<"_update_global_forecasts", "schedule.step", "_compute_macro",
      "_update_minting", "_aggregate_terminations", "_update_sched_expire_pledge",
      "_update_circulating_supply", "_update_generated_quantities",
      "_step_post_network_updates", "_update_agents", "increment">>

\* a step() that returns to the caller after every call
NextCallReturns(call) == "running"

\* the position after the call: the next line of step(), or the caller
NextCall(call) ==
    LET i == CHOOSE j \in DOMAIN StepCalls : StepCalls[j] = call
    IN  IF i = Len(StepCalls) THEN "running" ELSE StepCalls[i + 1]

InitCalls ==
    /\ Init
    /\ hist.name = "seeded"
    /\ end_day = BootDays + ShortSim

\* step() is entered; _update_global_forecasts is its first line
EnterStep ==
    /\ pc = "running" /\ err = "none"
    /\ current_day < end_day
    /\ current_day - start_day < MaxSteps
    /\ pc' = StepCalls[1]
    /\ upd' = [NoUpdate EXCEPT !.op = "stepping", !.day = current_day]
    /\ UNCHANGED <<cfg, current_day, filecoin_df, agents, boot_day, probe, err>>

\* reads yesterday's circ_supply for the discount-rate process
UpdateGlobalForecasts ==
    /\ pc = "_update_global_forecasts" /\ err = "none"
    /\ pc' = NextCall(pc)
    /\ UNCHANGED <<cfg, current_day, filecoin_df, agents, upd, boot_day, probe, err>>

ScheduleStep ==
    /\ pc = "schedule.step" /\ err = "none"
    /\ \E acts \in [Agents -> BOOLEAN] :
       \E req \in {Requests(acts)} :
          agents' = Table([a \in Agents |->
                        AgentStep(agents[a], req[a], current_day, end_day)])
    /\ pc' = NextCall(pc)
    /\ UNCHANGED <<cfg, current_day, filecoin_df, upd, boot_day, probe, err>>

ComputeMacroUpdatePowerMetrics ==
    /\ pc = "_compute_macro" /\ err = "none"
    /\ filecoin_df' = _update_power_metrics(filecoin_df,
                                            _compute_macro(agents, current_day), current_day)
    /\ pc' = NextCall(pc)
    /\ UNCHANGED <<cfg, current_day, agents, upd, boot_day, probe, err>>

UpdateMinting ==
    /\ pc = "_update_minting" /\ err = "none"
    /\ filecoin_df' = _update_minting(filecoin_df, current_day)
    /\ pc' = NextCall(pc)
    /\ UNCHANGED <<cfg, current_day, agents, upd, boot_day, probe, err>>

AggregateTerminations ==
    /\ pc = "_aggregate_terminations" /\ err = "none"
    /\ filecoin_df' = _aggregate_terminations(filecoin_df, agents, current_day)
    /\ pc' = NextCall(pc)
    /\ UNCHANGED <<cfg, current_day, agents, upd, boot_day, probe, err>>

UpdateSchedExpirePledge ==
    /\ pc = "_update_sched_expire_pledge" /\ err = "none"
    /\ \E s \in {_update_sched_expire_pledge(filecoin_df, agents, current_day, TRUE)} :
          /\ filecoin_df' = s.df
          /\ agents' = s.ag
          /\ upd' = [upd EXCEPT !.rr_sched = s.rr]
    /\ pc' = NextCall(pc)
    /\ UNCHANGED <<cfg, current_day, boot_day, probe, err>>

UpdateCirculatingSupply ==
    /\ pc = "_update_circulating_supply" /\ err = "none"
    /\ \E c \in {_update_circulating_supply(filecoin_df, agents, current_day,
                                             hist.daily_burnt_fil)} :
          /\ filecoin_df' = c.df
          /\ upd' = [upd EXCEPT !.rr_cs = c.rr, !.agent_pledge_delta = c.deltas]
    /\ pc' = NextCall(pc)
    /\ UNCHANGED <<cfg, current_day, agents, boot_day, probe, err>>

UpdateGeneratedQuantities ==
    /\ pc = "_update_generated_quantities" /\ err = "none"
    /\ filecoin_df' = _update_generated_quantities(filecoin_df, current_day)
    /\ pc' = NextCall(pc)
    /\ UNCHANGED <<cfg, current_day, agents, upd, boot_day, probe, err>>

\* _step_post_network_updates is empty and no user callable is configured
PostNetworkUpdates ==
    /\ pc = "_step_post_network_updates" /\ err = "none"
    /\ pc' = NextCall(pc)
    /\ UNCHANGED <<cfg, current_day, filecoin_df, agents, upd, boot_day, probe, err>>

UpdateAgents ==
    /\ pc = "_update_agents" /\ err = "none"
    /\ \E u \in {_update_agents(filecoin_df, agents, current_day)} :
          /\ agents' = u.ag
          /\ upd' = [upd EXCEPT !.op = "step", !.share = u.share, !.reward = u.reward,
                                 !.truncated = current_day + VEST_DAYS >= end_day]
    /\ pc' = NextCall(pc)
    /\ UNCHANGED <<cfg, current_day, filecoin_df, boot_day, probe, err>>

\* self.current_date += timedelta(days=1); self.current_day += 1
IncrementCounters ==
    /\ pc = "increment" /\ err = "none"
    /\ current_day' = current_day + 1
    /\ pc' = NextCall(pc)
    /\ UNCHANGED <<cfg, filecoin_df, agents, upd, boot_day, probe, err>>

NextCalls ==
    \/ FastForward
    \/ FastForwardSupplyDay
    \/ FastForwardSupplyDone
    \/ ZeroAgentRewards
    \/ EnterStep
    \/ UpdateGlobalForecasts
    \/ ScheduleStep
    \/ ComputeMacroUpdatePowerMetrics
    \/ UpdateMinting
    \/ AggregateTerminations
    \/ UpdateSchedExpirePledge
    \/ UpdateCirculatingSupply
    \/ UpdateGeneratedQuantities
    \/ PostNetworkUpdates
    \/ UpdateAgents
    \/ IncrementCounters
    \/ StepPastEnd

SpecCalls == InitCalls /\ [][NextCalls]_vars

(***************************************************************************)
(* The renewal ratio applied on its own: every pair of renewed and         *)
(* scheduled-expire quality-adjusted power between -MaxPow and MaxPow PiB, *)
(* held as either kind of float, through both copies of the rule.          *)
(***************************************************************************)
InitRR ==
    /\ compute_cs_from_networkdatastart = FALSE
    /\ use_historical_gas = FALSE
    /\ start_day = BootDays
    /\ end_day = BootDays + ShortSim
    /\ current_day = start_day
    /\ hist = HistRecord("empty")
    /\ pc = "renewal_ratio"
    /\ filecoin_df = <<>>
    /\ agents = <<>>
    /\ upd = NoUpdate
    /\ boot_day = 0
    /\ err = "none"
    /\ \E renewed \in (0 - MaxPow)..MaxPow, se \in (0 - MaxPow)..MaxPow, pyfloat \in BOOLEAN :
          probe = [f |-> "renewal_ratio", done |-> FALSE,
                   renewed |-> Q(renewed), se |-> Q(se), pyfloat |-> pyfloat,
                   sched |-> NaN, cs |-> NaN]

ApplyRenewalRatio ==
    /\ pc = "renewal_ratio" /\ ~probe.done
    /\ LET s == agent_rr_sched_expire(Mul(probe.renewed, Q(PIB)), Mul(probe.se, Q(PIB)),
                                      probe.pyfloat)
           c == agent_rr_circ_supply(Mul(probe.renewed, Q(PIB)), Mul(probe.se, Q(PIB)),
                                     probe.pyfloat)
       IN  /\ probe' = [probe EXCEPT !.done = TRUE, !.sched = s.v, !.cs = c.v]
           /\ err' = IF s.raised \/ c.raised THEN "ZeroDivisionError" ELSE "none"
    /\ UNCHANGED <<cfg, current_day, pc, filecoin_df, agents, upd, boot_day>>

NextRR == ApplyRenewalRatio

SpecRR == InitRR /\ [][NextRR]_vars

(***************************************************************************)
(* A pledge request applied on its own: for every requested power of       *)
(* 0..MaxPow PiB, on a ledger of two rows whose per-unit pledge rate,      *)
(* circulating supply and day reward are drawn from small sets, the pledge *)
(* is computed in both places.                                             *)
(***************************************************************************)
PledgeLedger(rate, circ, reward) ==
    [t \in 0..1 |->
        [EmptyRow EXCEPT !.day_pledge_per_QAP = Q(rate),
                         !.circ_supply = Q(circ),
                         !.day_network_reward = Q(reward),
                         !.total_qa_power_eib = Frac(6, 1024)]]

InitPledge ==
    /\ compute_cs_from_networkdatastart = FALSE
    /\ use_historical_gas = FALSE
    /\ start_day = 1
    /\ end_day = 2
    /\ current_day = start_day
    /\ hist = HistRecord("seeded")
    /\ pc = "pledge_request"
    /\ \E rate \in 0..MaxPow, circ \in {0, 30}, reward \in {6, 9} :
          filecoin_df = PledgeLedger(rate, circ, reward)
    /\ agents = <<>>
    /\ upd = NoUpdate
    /\ boot_day = 0
    /\ err = "none"
    /\ \E qa \in 0..MaxPow :
          probe = [f |-> "pledge_request", done |-> FALSE, qa_power_pib |-> Q(qa),
                   estimate |-> [v |-> NaN, ratio_called |-> FALSE],
                   locked |-> [v |-> NaN, ratio_called |-> FALSE]]

ApplyPledgeRequest ==
    /\ pc = "pledge_request" /\ ~probe.done
    /\ probe' = [probe EXCEPT
                    !.done = TRUE,
                    !.estimate = estimate_pledge_for_qa_power(filecoin_df, current_day,
                                                              probe.qa_power_pib),
                    !.locked = locked_pledge_for_qa_power(filecoin_df, current_day,
                                                          probe.qa_power_pib)]
    /\ UNCHANGED <<cfg, current_day, pc, filecoin_df, agents, upd, boot_day, err>>

NextPledge == ApplyPledgeRequest

SpecPledge == InitPledge /\ [][NextPledge]_vars

(***************************************************************************)
(* __init__ from its arguments: the dates, the agents' power distribution  *)
(* and agent_kwargs_list.  _validate runs before the ledger is built; an   *)
(* exception it raises ends the construction with nothing built.           *)
(***************************************************************************)
\* index of constants.NETWORK_DATA_START
NETWORK_DATA_START == 0

\* numpy.isclose(a, b) with its default tolerances
ISCLOSE_RTOL == Frac(1, 100000)
ISCLOSE_ATOL == Frac(1, 100000000)
AbsQ(x) == IF Lt(x, Zero) THEN Neg(x) ELSE x
NpIsClose(a, b) ==
    IF IsNaN(a) \/ IsNaN(b) THEN FALSE
    ELSE IF a.d = 0 \/ b.d = 0 THEN a = b
    ELSE Le(AbsQ(Sub(a, b)), Add(ISCLOSE_ATOL, Mul(ISCLOSE_RTOL, AbsQ(b))))

\* a list of n equal parts of share
Parts(n, share) == [k \in 1..n |-> share]

\* the lists given as agent_power_distributions: equal parts that sum to 1
\* for one agent fewer, for every agent and for one agent more, parts that
\* sum to 1/2, and parts whose sum exceeds 1 by 2e-5
Distributions ==
    {Parts(NumAgents - 1, Frac(1, IF NumAgents > 1 THEN NumAgents - 1 ELSE 1)),
     Parts(NumAgents, Frac(1, NumAgents)),
     Parts(NumAgents + 1, Frac(1, NumAgents + 1)),
     Parts(NumAgents, Frac(1, 2 * NumAgents)),
     [Parts(NumAgents, Frac(1, NumAgents)) EXCEPT ![NumAgents] = Add(@, Frac(1, 50000))]}

\* agent_kwargs_list: None, or a list of dicts
KwargsLists ==
    {[is_none |-> TRUE, list |-> <<>>]} \cup
    {[is_none |-> FALSE, list |-> Parts(n, "kwargs")] :
        n \in (NumAgents - 1)..(NumAgents + 1)}

\* an agent_kwargs_list of any length is taken
KwargsListUnchecked(agent_kwargs_list) == TRUE

\* if agent_kwargs_list is not None: assert len(agent_kwargs_list) == num_agents
KwargsListChecked(agent_kwargs_list) ==
    agent_kwargs_list.is_none \/ Len(agent_kwargs_list.list) = NumAgents

\* the exception that _validate raises, "none" when it returns
_validate(sd, ed, agent_power_distributions, agent_kwargs_list) ==
    IF sd < NETWORK_DATA_START THEN "ValueError"
    ELSE IF ed < sd THEN "ValueError"
    ELSE IF Len(agent_power_distributions) # NumAgents THEN "AssertionError"
    ELSE IF ~NpIsClose(SumOver(agent_power_distributions,
                               DOMAIN agent_power_distributions), One)
    THEN "AssertionError"
    ELSE IF ~KwargsListChecked(agent_kwargs_list) THEN "AssertionError"
    ELSE "none"

InitConstruct ==
    /\ compute_cs_from_networkdatastart \in BOOLEAN
    /\ use_historical_gas \in BOOLEAN
    /\ start_day \in {NETWORK_DATA_START - 1, BootDays}
    /\ end_day \in {start_day - 1, start_day + ShortSim}
    /\ \E h \in HistNames : hist = HistRecord(h)
    /\ current_day = start_day
    /\ pc = "validate"
    /\ filecoin_df = <<>>
    /\ agents = <<>>
    /\ upd = NoUpdate
    /\ boot_day = 0
    /\ \E dist \in Distributions, kw \in KwargsLists :
          probe = [f |-> "__init__", agent_power_distributions |-> dist,
                   agent_kwargs_list |-> kw]
    /\ err = "none"

\* __init__ from _validate to _seed_agents
Construct ==
    /\ pc = "validate" /\ err = "none"
    /\ \E e \in {_validate(start_day, end_day, probe.agent_power_distributions,
                           probe.agent_kwargs_list)} :
          IF e # "none"
          THEN /\ err' = e
               /\ pc' = "failed"
               /\ UNCHANGED <<filecoin_df, agents>>
          ELSE /\ filecoin_df' = [t \in 0..(end_day - 1) |->
                     [EmptyRow EXCEPT !.scheduled_pledge_release =
                         HistTotalPledge(hist.name, t, start_day)]]
               /\ agents' = _seed_agents(hist.name, start_day, end_day)
               /\ pc' = "fast_forward"
               /\ err' = "none"
    /\ UNCHANGED <<cfg, current_day, upd, boot_day, probe>>

NextConstruct ==
    \/ Construct
    \/ Next

SpecConstruct == InitConstruct /\ [][NextConstruct]_vars

(***************************************************************************)
(* How the functions of the model find a row of the network ledger.  The   *)
(* ledger has a RangeIndex: index is the list of its row labels in         *)
(* positional order, 0 .. len-1 after construction, and the rows with those*)
(* labels carry the dates.  The three ways the code reaches a row:         *)
(*   df[df['date'] == d].index[0]   IndexError when no row has the date    *)
(*   df.loc[i, col]                 read: KeyError when no row is labelled *)
(*                                  i; write: a row labelled i is appended *)
(*                                  when there is none                     *)
(*   df.iloc[i] / df[col].iloc[i]   by position, a negative i counts from  *)
(*                                  the end; IndexError outside -n .. n-1  *)
(* An access is a pair <<how, off>>: the row of day + off reached by how.  *)
(***************************************************************************)
HasLabel(index, i) == \E p \in DOMAIN index : index[p] = i

\* the outcome of one access: the exception, the row label it reached and
\* the index afterwards
Access(how, i, index, len) ==
    IF how = "date"
    THEN [err |-> IF i \in 0..(len - 1) THEN "none" ELSE "IndexError",
          row |-> i, index |-> index]
    ELSE IF how = "loc"
    THEN [err |-> IF HasLabel(index, i) THEN "none" ELSE "KeyError",
          row |-> i, index |-> index]
    ELSE IF how = "loc_set"
    THEN [err |-> "none", row |-> i,
          index |-> IF HasLabel(index, i) THEN index ELSE Append(index, i)]
    ELSE \* "iloc"
         IF i >= 0 /\ i < Len(index)
         THEN [err |-> "none", row |-> index[i + 1], index |-> index]
         ELSE IF i < 0 /\ Len(index) + i >= 0
         THEN [err |-> "none", row |-> index[Len(index) + i + 1], index |-> index]
         ELSE [err |-> "IndexError", row |-> i, index |-> index]

\* the accesses of a function in the order of its statements
Accesses(fn) ==
    IF fn = "estimate_pledge_for_qa_power"
    THEN <<<<"date", 0>>, <<"loc", -1>>, <<"loc", -1>>, <<"loc", -1>>, <<"loc", -1>>,
           <<"iloc", -1>>>>
    ELSE IF fn = "get_discount_rate_pct"
    THEN <<<<"date", 0>>, <<"loc", 0>>>>
    ELSE IF fn = "_release_pledge"
    THEN <<<<"date", 0>>, <<"loc", 0>>, <<"loc_set", 0>>>>
    ELSE IF fn = "_update_global_forecasts"
    THEN <<<<"date", 0>>, <<"loc", -1>>>>
    ELSE IF fn = "_update_power_metrics"
    THEN <<<<"loc_set", 0>>, <<"loc_set", 0>>, <<"loc", 0>>, <<"loc", -1>>, <<"loc_set", 0>>,
           <<"loc", 0>>, <<"loc", -1>>, <<"loc_set", 0>>>>
    ELSE IF fn = "_update_minting"
    THEN <<<<"loc", 0>>, <<"loc", 0>>, <<"loc", -1>>, <<"loc_set", 0>>, <<"loc", 0>>,
           <<"loc_set", 0>>, <<"loc", -1>>, <<"loc_set", 0>>>>
    ELSE IF fn = "_aggregate_terminations"
    THEN <<<<"loc", 0>>, <<"loc", 0>>, <<"loc_set", 0>>>>
    ELSE IF fn = "_update_sched_expire_pledge"
    THEN <<<<"date", 0>>, <<"loc", 0>>, <<"loc", 0>>, <<"loc", 0>>, <<"loc", -1>>,
           <<"iloc", -1>>, <<"loc", 0>>, <<"loc_set", 0>>>>
    ELSE IF fn = "_update_circulating_supply"
    THEN <<<<"iloc", 0>>, <<"iloc", 0>>, <<"iloc", -1>>, <<"iloc", -1>>, <<"iloc", -1>>,
           <<"iloc", -1>>, <<"loc_set", 0>>, <<"loc", 0>>, <<"iloc", -1>>, <<"iloc", 0>>,
           <<"loc_set", 0>>>>
    ELSE IF fn = "_update_generated_quantities"
    THEN <<<<"iloc", 0>>, <<"loc", 0>>, <<"loc_set", 0>>, <<"iloc", 0>>, <<"loc_set", 0>>>>
    ELSE \* "_update_agents", with _get_agent_power_proportion
         <<<<"iloc", 0>>, <<"iloc", 0>>, <<"iloc", 0>>, <<"iloc", 0>>>>

LookupFunctions ==
    {"estimate_pledge_for_qa_power", "get_discount_rate_pct", "_release_pledge",
     "_update_global_forecasts", "_update_power_metrics", "_update_minting",
     "_aggregate_terminations", "_update_sched_expire_pledge",
     "_update_circulating_supply", "_update_generated_quantities", "_update_agents"}

\* the functions that read the row before the day's
ReadsPreviousDay ==
    {"estimate_pledge_for_qa_power", "_update_global_forecasts", "_update_power_metrics",
     "_update_minting", "_update_sched_expire_pledge", "_update_circulating_supply"}

\* the accesses acc[k..] of a call for the given day, from the index so far:
\* the exception that ends the call, the index and the rows reached
RECURSIVE RunAccesses(_, _, _, _, _, _)
RunAccesses(acc, k, day, index, len, rows) ==
    IF k > Len(acc) THEN [err |-> "none", index |-> index, rows |-> rows]
    ELSE Bind(Access(acc[k][1], day + acc[k][2], index, len), LAMBDA r :
            IF r.err # "none" THEN [err |-> r.err, index |-> index, rows |-> rows]
            ELSE RunAccesses(acc, k + 1, day, r.index, len, rows \cup {r.row}))

InitLookup ==
    /\ compute_cs_from_networkdatastart \in BOOLEAN
    /\ use_historical_gas = FALSE
    /\ start_day = BootDays
    /\ end_day = BootDays + ShortSim
    /\ \E h \in HistNames : hist = HistRecord(h)
    /\ current_day = start_day
    /\ pc = "lookup"
    /\ filecoin_df = [t \in 0..(end_day - 1) |->
          [EmptyRow EXCEPT !.scheduled_pledge_release =
              HistTotalPledge(hist.name, t, start_day)]]
    /\ agents = _seed_agents(hist.name, start_day, end_day)
    /\ upd = NoUpdate
    /\ boot_day = 0
    /\ \E fn \in LookupFunctions, day \in (-1)..end_day :
          probe = [f |-> "lookup", done |-> FALSE, fn |-> fn, day |-> day,
                   err |-> "none", index |-> <<>>, rows |-> {}]
    /\ err = "none"

\* one call of the function for the day, as far as its row accesses go
ApplyLookup ==
    /\ pc = "lookup" /\ ~probe.done
    /\ \E r \in {RunAccesses(Accesses(probe.fn), 1, probe.day,
                             [p \in 1..end_day |-> p - 1], end_day, {})} :
          /\ probe' = [probe EXCEPT !.done = TRUE, !.err = r.err,
                                    !.index = r.index, !.rows = r.rows]
          /\ err' = r.err
    /\ UNCHANGED <<cfg, current_day, pc, filecoin_df, agents, upd, boot_day>>

NextLookup == ApplyLookup

SpecLookup == InitLookup /\ [][NextLookup]_vars

(***************************************************************************)
(*                              Properties                                 *)
(***************************************************************************)

\* the rows that the daily updates of step() have written
RunningRows == IF pc = "running" THEN start_day..(current_day - 1) ELSE {}

\* whether the last thing done was a full daily update (a step of the
\* simulation or a day of the bootstrap's supply loop)
DayUpdated == upd.op \in {"step", "fast_forward"}

\* total[t-1] + (onboarded + renewed - expired - terminated)/1024 over the
\* values stored in row t
StoredBalance(prev_total, onb, ren, se, term) ==
    Add(prev_total, Div(Sub(Sub(Add(onb, ren), se), term), Q(1024)))

C1_Floored(x) == IF Lt(x, Frac(1, 1000000)) THEN Frac(1, 1000000) ELSE x

\* the rows start_day..t hold no renewal, expiration or termination of raw
\* power and a positive onboarding
C1_OnlyOnboarding(t) ==
    \A s \in start_day..t :
        /\ Eq(filecoin_df[s].day_renewed_rbp_pib, Zero)
        /\ Eq(filecoin_df[s].day_sched_expire_rbp_pib, Zero)
        /\ Eq(filecoin_df[s].day_terminated_rbp_pib, Zero)
        /\ Lt(Zero, filecoin_df[s].day_onboarded_rbp_pib)

C2_LockedIsPledgePlusReward ==
    \A t \in DOMAIN filecoin_df :
        ~IsNaN(filecoin_df[t].network_locked) =>
            Eq(filecoin_df[t].network_locked,
               Add(filecoin_df[t].network_locked_pledge,
                   filecoin_df[t].network_locked_reward))

\* C3: every row whose circ_supply has been computed holds a value >= 0.
C3_CircSupplyNonNegative ==
    \A t \in DOMAIN filecoin_df :
        ~IsNaN(filecoin_df[t].circ_supply) => Le(Zero, filecoin_df[t].circ_supply)

\* C4: after the circulating-supply update of day t, circ_supply[t] is the
\* supply balance floored at 0, network_locked[t] is network_locked[t-1] +
\* pledge_delta[t] + reward_delta[t], and pledge_delta[t] is the sum of the
\* agents' pledge deltas of the day.
C4_CircSupplyFormula ==
    DayUpdated =>
        LET t == upd.day
            r == filecoin_df[t]
            balance == Sub(Sub(Sub(Add(Add(Q(17), r.cum_network_reward), total_vest(t)),
                                   r.network_locked),
                               r.network_gas_burn),
                           r.burn_from_terminations)
        IN  /\ Eq(r.circ_supply, IF Lt(balance, Zero) THEN Zero ELSE balance)
            /\ Eq(r.network_locked,
                  Add(Add(filecoin_df[t - 1].network_locked, r.pledge_delta),
                      r.reward_delta))
            /\ Eq(r.pledge_delta,
                  SumOver([a \in Agents |-> AgentPledgeDelta(filecoin_df, agents, a, t)],
                          Agents))

\* a step has locked new pledge and rewards and left a positive supply
C4_Witness ==
    /\ upd.op = "step"
    /\ Lt(Zero, filecoin_df[upd.day].pledge_delta)
    /\ Lt(Zero, filecoin_df[upd.day].reward_delta)
    /\ Lt(Zero, filecoin_df[upd.day].circ_supply)

\* C5: on every day that distributes rewards, every agent's power share is
\* in [0,1] and the shares sum to exactly 1, also when no agent has power.
C5_SharesSumToOne ==
    DayUpdated =>
        /\ \A a \in Agents : Le(Zero, upd.share[a]) /\ Le(upd.share[a], One)
        /\ Eq(SumOver(upd.share, Agents), One)

\* f[lo] + ... + f[hi], added by halves
RECURSIVE C6_Sum(_, _, _)
C6_Sum(f, lo, hi) ==
    IF lo > hi THEN Zero
    ELSE IF lo = hi THEN f[lo]
    ELSE Add(C6_Sum(f, lo, (lo + hi) \div 2), C6_Sum(f, (lo + hi) \div 2 + 1, hi))

\* the reward_FIL rows of agent a after a reward R was credited on day d
C6_Credited(a, d, R) ==
    LET old == agents[a].accounting_df
        new == agents'[a].accounting_df
    IN  /\ \A t \in DOMAIN old :
              new[t].reward_FIL =
                  IF t = d THEN Add(old[t].reward_FIL, Mul(R, Frac(1, 4)))
                  ELSE IF d + 1 <= t /\ t <= d + 180
                  THEN Add(old[t].reward_FIL, Div(Mul(R, Frac(3, 4)), Q(180)))
                  ELSE old[t].reward_FIL
        /\ (IsFinite(R) /\ d + 180 \in DOMAIN old) =>
              Eq(C6_Sum(Table([t \in DOMAIN old |->
                                   Sub(new[t].reward_FIL, old[t].reward_FIL)]),
                        0, end_day - 1), R)

\* C6: crediting a reward R on day d adds R/4 to reward_FIL at row d and
\* (3R/4)/180 at each of the rows d+1 .. d+180 of the ledger, changes no
\* other row, and credits R in all when the 180 rows exist.
C6_VestingSchedule ==
    [][(upd'.day # upd.day /\ upd'.op \in {"step", "fast_forward"}) =>
          \A a \in Agents : C6_Credited(a, upd'.day, upd'.reward[a])]_vars

\* a step has credited a positive reward whose 180 installments all have a row
C6_Witness ==
    /\ upd.op = "step" /\ ~upd.truncated
    /\ \E a \in Agents :
          /\ Lt(Zero, upd.reward[a])
          /\ Lt(Zero, agents[a].accounting_df[upd.day + 180].reward_FIL)

\* C7: a reward whose installments would fall past the last row of the
\* ledger is flagged: the step that credits it raises or records an error.
C7_TruncationFlagged ==
    (/\ upd.op = "step" /\ upd.truncated
     /\ \E a \in Agents : IsFinite(upd.reward[a]) /\ upd.reward[a] # Zero)
        => err # "none"

\* C8: the full reward written for every agent is the day's network reward
\* times the agent's share, the immediate credit is a quarter of it, and the
\* agents' full rewards add up to the day's network reward.
C8_RewardSplit ==
    DayUpdated =>
        LET d == upd.day
            R == filecoin_df[d].day_network_reward
        IN  /\ \A a \in Agents :
                  /\ upd.reward[a] = Mul(R, upd.share[a])
                  /\ ImmediateReward(upd.reward[a]) = Mul(Frac(1, 4), Mul(R, upd.share[a]))
            /\ Eq(SumOver(upd.reward, Agents), R)

\* C9: for every pair of renewed and scheduled-expire power the ratio is
\* computed without an error, lies in [0,1], is 1 when nothing was scheduled
\* and something renewed, 0 when the scheduled power is negative or nothing
\* renewed, the clipped quotient otherwise, and is the same in both places.
C9_RenewalRatio ==
    (probe.f = "renewal_ratio" /\ probe.done) =>
        /\ err = "none"
        /\ Le(Zero, probe.sched) /\ Le(probe.sched, One)
        /\ (Eq(probe.se, Zero) /\ Lt(Zero, probe.renewed)) => Eq(probe.sched, One)
        /\ (Lt(probe.se, Zero) \/ Eq(probe.renewed, Zero)) => Eq(probe.sched, Zero)
        /\ (Lt(Zero, probe.se) /\ ~Eq(probe.renewed, Zero)) =>
              Eq(probe.sched,
                 IF Lt(probe.renewed, Zero) THEN Zero
                 ELSE IF Lt(probe.se, probe.renewed) THEN One
                 ELSE Div(probe.renewed, probe.se))
        /\ probe.sched = probe.cs

\* the product of the first k ratios
RECURSIVE C10_Product(_, _)
C10_Product(rr, k) == IF k = 0 THEN One ELSE Mul(C10_Product(rr, k - 1), rr[k])

\* the agents' renewal ratios of day t, from the agents' ledgers
C10_Ratios(t) ==
    [a \in Agents |->
        agent_rr_sched_expire(Mul(agents[a].renewed_power[t].qa, Q(PIB)),
                              Mul(agents[a].scheduled_expire_power[t].qa, Q(PIB)),
                              FALSE).v]

\* C10: after the scheduled-expiration update of day t, renewal_rate[t] is
\* the product of the agents' renewal ratios of the day, and so 0 when one
\* agent's ratio is 0.
C10_RenewalRateIsProduct ==
    DayUpdated =>
        LET rr == C10_Ratios(upd.day)
        IN  /\ Eq(filecoin_df[upd.day].renewal_rate, C10_Product(rr, NumAgents))
            /\ (\E a \in Agents : Eq(rr[a], Zero)) =>
                  Eq(filecoin_df[upd.day].renewal_rate, Zero)

\* a step in which the agents renewed different parts of their expiring
\* power: the product of the ratios is below their mean
C10_Witness ==
    /\ upd.op = "step"
    /\ \E a \in Agents, b \in Agents : Lt(C10_Ratios(upd.day)[a], C10_Ratios(upd.day)[b])
    /\ \A a \in Agents : Lt(Zero, C10_Ratios(upd.day)[a])
    /\ Lt(filecoin_df[upd.day].renewal_rate,
          Div(SumOver(C10_Ratios(upd.day), Agents), Q(NumAgents)))

\* the rows whose pledge update has run: the days of the bootstrap's supply
\* loop and the simulated days
C11_PledgedRows ==
    IF DayUpdated
    THEN (IF compute_cs_from_networkdatastart THEN 1 ELSE start_day)..upd.day
    ELSE {}

\* the renewal ratio of agent a on day t, from the agent's ledger
C11_Ratio(a, t) ==
    agent_rr_sched_expire(Mul(agents[a].renewed_power[t].qa, Q(PIB)),
                          Mul(agents[a].scheduled_expire_power[t].qa, Q(PIB)), FALSE).v

\* C11: for every agent and every day t whose pledge update has run, the
\* renewal pledge recorded in renew_pledge_FIL[t] is at least the agent's
\* scheduled_pledge_release[t] times the agent's renewal ratio of day t.
C11_RenewPledgeAtLeastOriginal ==
    \A t \in C11_PledgedRows : \A a \in Agents :
        Le(Mul(agents[a].accounting_df[t].scheduled_pledge_release, C11_Ratio(a, t)),
           agents[a].accounting_df[t].renew_pledge_FIL)

\* a step in which the pledge computed for an agent's renewal was below the
\* original pledge of the renewed part, and the original part was locked
C11_Witness ==
    /\ upd.op = "step"
    /\ \E a \in Agents :
          LET acc == agents[a].accounting_df[upd.day]
              orig == Mul(acc.scheduled_pledge_release, C11_Ratio(a, upd.day))
          IN  /\ Lt(Zero, orig)
              /\ Eq(acc.renew_pledge_FIL, orig)
              /\ Lt(compute_new_pledge_for_added_power(
                        filecoin_df[upd.day].day_network_reward,
                        filecoin_df[upd.day - 1].circ_supply,
                        Mul(agents[a].renewed_power[upd.day].qa, Q(PIB)),
                        Mul(filecoin_df[upd.day].total_qa_power_eib, Q(EIB)),
                        network_baseline(upd.day)), orig)

\* C12: a pledge request for 0 added quality-adjusted power returns the
\* per-unit pledge rate of the day before times zero and does not call the
\* onboarding-ratio formula, in estimate_pledge_for_qa_power and in the
\* per-agent pledge of _update_sched_expire_pledge.
C12_ZeroPowerPledge ==
    (probe.f = "pledge_request" /\ probe.done /\ Eq(probe.qa_power_pib, Zero)) =>
        LET rate == filecoin_df[current_day - 1].day_pledge_per_QAP
        IN  /\ Eq(probe.estimate.v, Mul(rate, Zero))
            /\ ~probe.estimate.ratio_called
            /\ Eq(probe.locked.v, Mul(rate, Zero))
            /\ ~probe.locked.ratio_called

\* the pledge the step of day d locked in column col of agent a's row d
C13_Locked(a, d, col) ==
    Sub(agents'[a].accounting_df[d][col], agents[a].accounting_df[d][col])

\* what the step of day d adds to agent a's scheduled_pledge_release of row t:
\* the onboarding pledge at d + its duration, the renewal pledge at d + its
\* duration
C13_Deferred(a, d, t) ==
    Add(IF t = d + agents'[a].onboarded_power[d].dur
        THEN C13_Locked(a, d, "onboard_pledge_FIL") ELSE Zero,
        IF t = d + agents'[a].renewed_power[d].dur
        THEN C13_Locked(a, d, "renew_pledge_FIL") ELSE Zero)

\* C13: a Running step of day d that locks pledge P for an agent's onboarding
\* (renewal) of duration D adds P to scheduled_pledge_release at row d+D of
\* the agent's accounting table and of the network ledger when that row
\* exists; when d+D is past the last row no row changes and no error is
\* raised, and the lock stays recorded in the agent's row d.
C13_DeferredRelease ==
    [][(upd'.op = "step" /\ upd'.day # upd.day) =>
          LET d == upd'.day
          IN  /\ err' = "none"
              /\ \A a \in Agents : \A t \in DOMAIN filecoin_df :
                    agents'[a].accounting_df[t].scheduled_pledge_release =
                        Add(agents[a].accounting_df[t].scheduled_pledge_release,
                            C13_Deferred(a, d, t))
              /\ \A t \in DOMAIN filecoin_df :
                    filecoin_df'[t].scheduled_pledge_release =
                        Add(filecoin_df[t].scheduled_pledge_release,
                            SumOver([a \in Agents |-> C13_Deferred(a, d, t)], Agents))
              /\ \A a \in Agents :
                    /\ agents'[a].accounting_df[d].onboard_pledge_FIL =
                          Add(agents[a].accounting_df[d].onboard_pledge_FIL,
                              locked_pledge_for_qa_power(
                                  filecoin_df', d, agents'[a].onboarded_power[d].qa).v)
                    /\ Le(locked_pledge_for_qa_power(
                              filecoin_df', d, agents'[a].renewed_power[d].qa).v,
                          C13_Locked(a, d, "renew_pledge_FIL"))]_vars

\* a step in which one agent's positive onboarding pledge was scheduled at a
\* row of the ledger, in its table and in the network's, and another agent's
\* positive onboarding pledge fell past the last row
C13_Witness ==
    /\ upd.op = "step"
    /\ \E a \in Agents, b \in Agents :
          LET d == upd.day
              ta == d + agents[a].onboarded_power[d].dur
              tb == d + agents[b].onboarded_power[d].dur
          IN  /\ Lt(Zero, agents[a].accounting_df[d].onboard_pledge_FIL)
              /\ d < ta /\ ta < end_day
              /\ Le(agents[a].accounting_df[d].onboard_pledge_FIL,
                    agents[a].accounting_df[ta].onboard_scheduled_pledge_release_FIL)
              /\ Le(agents[a].accounting_df[d].onboard_pledge_FIL,
                    filecoin_df[ta].scheduled_pledge_release)
              /\ Lt(Zero, agents[b].accounting_df[d].onboard_pledge_FIL)
              /\ tb >= end_day

\* C14: at every row t written by a step, capped_power[t] is the smaller of
\* the total raw power of row t in bytes and network_baseline[t],
\* cum_capped_power[t] is cum_capped_power[t-1] + capped_power[t],
\* cum_network_reward[t] is cum_baseline_reward(network_time(
\* cum_capped_power[t])) + cum_simple_reward[t], and day_network_reward[t] is
\* cum_network_reward[t] - cum_network_reward[t-1].
C14_Minting ==
    \A t \in RunningRows :
        LET r == filecoin_df[t]
            p == filecoin_df[t - 1]
            raw == Mul(Q(1024), r.total_raw_power_eib)
        IN  /\ Eq(r.capped_power,
                  IF Lt(network_baseline(t), raw) THEN network_baseline(t) ELSE raw)
            /\ Eq(r.cum_capped_power, Add(p.cum_capped_power, r.capped_power))
            /\ Eq(r.cum_network_reward,
                  Add(cum_baseline_reward(network_time(r.cum_capped_power)),
                      cum_simple_reward(t)))
            /\ Eq(r.day_network_reward, Sub(r.cum_network_reward, p.cum_network_reward))

\* steps have written a row whose raw power is above the baseline and whose
\* baseline reward grew
C14_Witness ==
    \E t \in RunningRows :
        /\ Lt(network_baseline(t), Mul(Q(1024), filecoin_df[t].total_raw_power_eib))
        /\ Eq(filecoin_df[t].capped_power, network_baseline(t))
        /\ Lt(filecoin_df[t - 1].cum_baseline_reward, filecoin_df[t].cum_baseline_reward)
        /\ Lt(Zero, filecoin_df[t].day_network_reward)

\* the agents after their policies of the day acted and before the network
\* updates: the step changes the agents' accounting tables only after that
C15_AgentsAfterPolicy ==
    [a \in Agents |-> [agents'[a] EXCEPT !.accounting_df = agents[a].accounting_df]]

\* C15: the ledger row a Running step writes is the row that the network
\* updates compute for every order of the agent list, from the same requests
\* of the agents.
C15_OrderIndependent ==
    [][(upd'.op = "step" /\ upd'.day # upd.day) =>
          \A f \in AgentOrders :
              NetworkRow(filecoin_df, Reordered(C15_AgentsAfterPolicy, f), upd'.day,
                         hist.daily_burnt_fil) = filecoin_df'[upd'.day]]_vars

\* a step in which the agents' pledge deltas differ and their renewal ratios
\* differ, so that the order of the list is visible in the addends
C15_Witness ==
    /\ upd.op = "step"
    /\ \E a \in Agents, b \in Agents :
          /\ Lt(upd.agent_pledge_delta[a], upd.agent_pledge_delta[b])
          /\ Lt(upd.rr_sched[a], upd.rr_sched[b])
    /\ Lt(Zero, filecoin_df[upd.day].circ_supply)

\* the phases of a Running step in the order the claim gives them; the
\* decision policies of all agents are one phase, the aggregation into
\* power metrics is _compute_macro with _update_power_metrics
C16_Phases ==
    <<"_update_global_forecasts", "schedule.step", "_compute_macro",
      "_update_minting", "_update_sched_expire_pledge", "_update_circulating_supply",
      "_update_generated_quantities", "_update_agents", "increment">>

\* the number of phases that a step at position p has completed
C16_Done(p) ==
    IF p = "running" THEN 0
    ELSE Cardinality({i \in DOMAIN C16_Phases :
            \E j, k \in DOMAIN StepCalls :
                /\ StepCalls[j] = C16_Phases[i] /\ StepCalls[k] = p /\ j < k})

C16_InStep(p) == p = "running" \/ \E k \in DOMAIN StepCalls : StepCalls[k] = p

\* C16: a Running step performs the forecast update, the agents' policies,
\* the aggregation into power metrics, the minting update, the pledge
\* scheduling update, the circulating-supply update, the derived-quantities
\* update and the reward distribution in this order, each once, and only
\* then advances the date, by exactly one day.
C16_StepOrder ==
    [][(C16_InStep(pc) /\ C16_InStep(pc') /\ err' = "none") =>
          /\ (pc # "running" /\ pc' # pc) =>
                \/ /\ pc \in {C16_Phases[i] : i \in DOMAIN C16_Phases}
                   /\ pc = C16_Phases[C16_Done(pc) + 1]
                   /\ IF pc' = "running" THEN C16_Done(pc) + 1 = Len(C16_Phases)
                      ELSE C16_Done(pc') = C16_Done(pc) + 1
                \/ /\ pc \notin {C16_Phases[i] : i \in DOMAIN C16_Phases}
                   /\ pc' # "running"
                   /\ C16_Done(pc') = C16_Done(pc)
          /\ (pc = "running" /\ pc' # pc) => pc' = C16_Phases[1]
          /\ current_day' # current_day =>
                /\ pc = "increment" /\ pc' = "running"
                /\ current_day' = current_day + 1
          /\ (pc = "_update_minting" /\ pc' # pc) =>
                ~IsNaN(filecoin_df[current_day].total_raw_power_eib)
          /\ (pc = "_update_sched_expire_pledge" /\ pc' # pc) =>
                /\ ~IsNaN(filecoin_df[current_day].day_network_reward)
                /\ IsNaN(filecoin_df[current_day].circ_supply)
          /\ (pc = "_update_agents" /\ pc' # pc) =>
                ~IsNaN(filecoin_df[current_day].circ_supply)]_vars

\* a second step has run through its calls up to the date advance
C16_Witness ==
    /\ pc = "increment"
    /\ current_day = start_day + 1
    /\ upd.op = "step" /\ upd.day = current_day
    /\ \E a \in Agents : Lt(Zero, upd.reward[a])

\* the state of the clock: 0 Bootstrapping, 1 Running, 2 Finished
C17_Clock(p, day) ==
    IF p \in {"fast_forward", "cs_loop", "zero_rewards"} THEN 0
    ELSE IF day < end_day THEN 1
    ELSE 2

\* C17: the clock moves only from Bootstrapping to Running and from Running
\* to Finished, and once current_date = end_date a call of step() changes
\* neither the date nor a row of the ledger.
C17_FinishedIsTerminal ==
    [][/\ C17_Clock(pc', current_day') \in
             {C17_Clock(pc, current_day), C17_Clock(pc, current_day) + 1}
       /\ C17_Clock(pc, current_day) = 2 =>
             /\ current_day' = current_day
             /\ filecoin_df' = filecoin_df
             /\ C17_Clock(pc', current_day') = 2]_vars

\* step() was called at the end date, after steps wrote the last rows
C17_Witness ==
    /\ pc = "running" /\ current_day = end_day
    /\ err = "IndexError"
    /\ upd.op = "step" /\ upd.day = end_day - 1

\* the state the replay starts from, as the row before the first day: the
\* historical totals rbp0 and qap0, the cumulative capped power of the
\* epoch and the cumulative reward that belongs to it
C18_Start ==
    [EmptyRow EXCEPT
        !.total_raw_power_eib = hist.rbp0,
        !.total_qa_power_eib = hist.qap0,
        !.cum_capped_power = hist.zero_cum_capped_power,
        !.cum_network_reward =
            Add(cum_baseline_reward(network_time(hist.zero_cum_capped_power)),
                cum_simple_reward(-1))]

\* the ledger after the Running-phase updates _update_power_metrics and
\* _update_minting were applied day by day to the days 0..t
RECURSIVE C18_Daily(_)
C18_Daily(t) ==
    IF t < 0 THEN [d \in -1..(start_day - 1) |-> IF d = -1 THEN C18_Start ELSE EmptyRow]
    ELSE _update_minting(
             _update_power_metrics(C18_Daily(t - 1), _compute_macro(agents, t), t), t)

C18_Columns ==
    {"total_raw_power_eib", "total_qa_power_eib", "capped_power", "cum_capped_power",
     "cum_network_reward", "day_network_reward"}

\* C18: the aggregate columns of the rows that Bootstrapping computed in
\* bulk equal the columns that the per-day updates of the Running phase
\* compute from the same starting state and the same agent power records,
\* on every bootstrapped day, the first included.
C18_BulkEqualsDaily ==
    pc # "fast_forward" =>
        \A t \in 0..(start_day - 1) : \A c \in C18_Columns :
            filecoin_df[t][c] = C18_Daily(start_day - 1)[t][c]

\* C19: when Bootstrapping has run a second time from the same historical
\* inputs, it has ended without an error and every ledger row before the
\* simulation start is the row the first run left.
C19_BootstrapIdempotent ==
    probe.f = "rerun" =>
        /\ err = "none"
        /\ \A t \in 0..(start_day - 1) : filecoin_df[t] = probe.first[t]

\* C20: constructing the model raises, builds no ledger and runs no
\* bootstrap and no simulation step whenever start_date is before the
\* network-data epoch, end_date is before start_date, the power
\* distribution has not one entry per agent or does not sum to 1 within
\* tolerance, or agent_kwargs_list has a length other than the number of
\* agents: every step of such a construction ends it with an exception, an
\* empty ledger, no agent and the date where it was.
C20_InvalidArguments ==
    /\ probe.f = "__init__"
    /\ \/ start_day < 0
       \/ end_day < start_day
       \/ Len(probe.agent_power_distributions) # NumAgents
       \/ ~NpIsClose(SumOver(probe.agent_power_distributions,
                             DOMAIN probe.agent_power_distributions), One)
       \/ /\ ~probe.agent_kwargs_list.is_none
          /\ Len(probe.agent_kwargs_list.list) # NumAgents

C20_InvalidArgumentsFail ==
    [][C20_InvalidArguments =>
          /\ pc = "validate" /\ pc' = "failed"
          /\ err' \in {"ValueError", "AssertionError"}
          /\ filecoin_df' = <<>> /\ agents' = <<>>
          /\ current_day' = current_day /\ upd' = NoUpdate /\ boot_day' = 0]_vars

\* a construction that failed on the length of agent_kwargs_list alone
C20_Witness ==
    /\ pc = "failed" /\ err = "AssertionError" /\ filecoin_df = <<>>
    /\ probe.f = "__init__"
    /\ start_day >= 0 /\ end_day >= start_day
    /\ probe.agent_power_distributions = Parts(NumAgents, Frac(1, NumAgents))
    /\ ~probe.agent_kwargs_list.is_none
    /\ Len(probe.agent_kwargs_list.list) # NumAgents

\* C21: the network ledger's first row is the network-data epoch and its
\* rows extend past the simulation end date by the maximum sector duration,
\* so that every deferred pledge release and every vesting installment
\* created by a simulated day has a row: no step's installments are
\* truncated and every sealed or renewed sector's release day is a row.
C21_LedgerHorizon ==
    /\ 0 \in DOMAIN filecoin_df
    /\ Cardinality(DOMAIN filecoin_df) >= end_day + LongDuration
    /\ upd.op = "step" =>
          /\ ~upd.truncated
          /\ \A a \in Agents :
                /\ upd.day + agents[a].onboarded_power[upd.day].dur \in DOMAIN filecoin_df
                /\ upd.day + agents[a].renewed_power[upd.day].dur \in DOMAIN filecoin_df

\* C22: a lookup of a ledger row for a date outside the ledger (before the
\* first row, after the last row, or the previous day of the first row) by
\* estimate_pledge_for_qa_power, get_discount_rate_pct, _release_pledge or a
\* per-day update function fails with an error: the call raises, having
\* reached no row but those of its day and the day before.
C22_OutsideLedger ==
    \/ probe.day \notin DOMAIN filecoin_df
    \/ probe.fn \in ReadsPreviousDay /\ probe.day - 1 \notin DOMAIN filecoin_df

C22_LookupFailsLoudly ==
    (probe.f = "lookup" /\ probe.done /\ C22_OutsideLedger) =>
        /\ probe.err # "none"
        /\ probe.rows \subseteq {probe.day, probe.day - 1} \cap DOMAIN filecoin_df

(***************************************************************************)
(* The agent-decision phase of step(), one agent at a time.  Each agent    *)
(* obtains its values from the model when its own step() runs; the agents  *)
(* are stepped in any order.  probe keeps what every stepped agent saw.    *)
(***************************************************************************)
\* what a policy obtains from the model on day t: the pledge estimates of
\* DCAAgent.step and ROIAgent.step (1 PiB) and of
\* ROIAgentDynamicOnboard.estimate_roi (one sector), the previous day's
\* pledge per QAP of ROIAgent.estimate_roi, and the circulating supply
\* from which _update_global_forecasts sets the day's discount rate
PolicyObservation(df, t) ==
    [pledge_per_pib |-> estimate_pledge_for_qa_power(df, t, One).v,
     pledge_per_sector |-> estimate_pledge_for_qa_power(df, t, SECTOR_SIZE).v,
     prev_day_pledge_per_QAP |-> df[t - 1].day_pledge_per_QAP,
     prev_circ_supply |-> df[t - 1].circ_supply]

\* the ledger with every cell of row t and of the later rows changed
OtherValue(x) == IF x = Q(7) THEN Q(8) ELSE Q(7)

RowsFromChanged(df, t) ==
    [i \in DOMAIN df |->
        IF i < t THEN df[i] ELSE [c \in DOMAIN df[i] |-> OtherValue(df[i][c])]]

NoPhase == [f |-> "phase", day |-> -1, stepped |-> {}, seen |-> <<>>, acted |-> {}]

PhaseOf(p, t) == IF p.f = "phase" /\ p.day = t THEN p ELSE [NoPhase EXCEPT !.day = t]

\* agent.step() of one agent that has not stepped today
AgentDecides ==
    /\ pc = "schedule.step" /\ err = "none"
    /\ \E ph \in {PhaseOf(probe, current_day)} :
       \E a \in Agents \ ph.stepped :
       \E act \in BOOLEAN :
          /\ agents' = [agents EXCEPT ![a] =
                           AgentStep(@, IF act THEN Policy(a) ELSE Idle,
                                     current_day, end_day)]
          /\ probe' = [ph EXCEPT
                           !.stepped = @ \cup {a},
                           !.acted = IF act THEN @ \cup {a} ELSE @,
                           !.seen = Table(a :> PolicyObservation(filecoin_df, current_day)
                                          @@ @)]
          /\ pc' = IF ph.stepped \cup {a} = Agents THEN NextCall(pc) ELSE pc
    /\ UNCHANGED <<cfg, current_day, filecoin_df, upd, boot_day, err>>

NextPhase ==
    \/ FastForward
    \/ FastForwardSupplyDay
    \/ FastForwardSupplyDone
    \/ ZeroAgentRewards
    \/ EnterStep
    \/ UpdateGlobalForecasts
    \/ AgentDecides
    \/ ComputeMacroUpdatePowerMetrics
    \/ UpdateMinting
    \/ AggregateTerminations
    \/ UpdateSchedExpirePledge
    \/ UpdateCirculatingSupply
    \/ UpdateGeneratedQuantities
    \/ PostNetworkUpdates
    \/ UpdateAgents
    \/ IncrementCounters
    \/ StepPastEnd

SpecPhase == InitCalls /\ [][NextPhase]_vars

\* C23: during the agent-decision phase of day t every value a policy
\* obtains from the model (the pledge estimates, the previous day's pledge
\* per QAP, the supply behind the discount rate) depends only on the ledger
\* rows of day t-1 and before: it is the same on a ledger whose rows of day
\* t and later hold other values, the same for every agent whatever agents
\* stepped before it, and an agent's step writes no ledger row and no
\* other agent's state.
C23_DecisionStep == pc = "schedule.step" /\ probe' # probe

C24_WritersOfStep ==
    /\ filecoin_df' # filecoin_df => pc # "schedule.step"
    /\ \A a \in Agents :
          (agents'[a].accounting_df # agents[a].accounting_df) => pc = "schedule.step"

\* C24: single-writer discipline within a step: the network ledger is
\* written by the orchestrator's phases and not during the agents' phase,
\* and an agent's accounting table is written only during the agents' phase
\* (by that agent), never by an orchestrator phase.
C24_SingleWriter ==
    [][(pc \in {StepCalls[i] : i \in DOMAIN StepCalls}) => C24_WritersOfStep]_vars

(***************************************************************************)
(* The model built on a history whose gas burn is, or is not, the same     *)
(* every day.                                                              *)
(***************************************************************************)
InitGas ==
    /\ compute_cs_from_networkdatastart \in BOOLEAN
    /\ use_historical_gas \in BOOLEAN
    /\ start_day = BootDays
    /\ \E h \in {"seeded", "uneven"} : hist = HistRecord(h)
    /\ end_day = BootDays + ShortSim
    /\ current_day = start_day
    /\ pc = "fast_forward"
    /\ filecoin_df = [t \in 0..(end_day - 1) |->
          [EmptyRow EXCEPT !.scheduled_pledge_release =
              HistTotalPledge(hist.name, t, start_day)]]
    /\ agents = _seed_agents(hist.name, start_day, end_day)
    /\ upd = NoUpdate
    /\ boot_day = 0
    /\ probe = [f |-> "none"]
    /\ err = "none"

SpecGas == InitGas /\ [][Next]_vars

\* the days whose supply was computed by _update_circulating_supply: the
\* days of the constructor's supply loop and the simulated days
C25_ComputedDays ==
    (IF compute_cs_from_networkdatastart THEN 1..(boot_day - 1) ELSE {})
        \cup start_day..(current_day - 1)

\* C25: the gas-burn mode is the constructor's use_historical_gas flag, in
\* both compute_cs_from_networkdatastart modes: with the flag false every
\* computed day's network_gas_burn is the previous day's plus the constant
\* daily average; with the flag true every day covered by the historical
\* series keeps its historical value.
C25_GasBurnMode ==
    /\ ~use_historical_gas =>
          \A t \in C25_ComputedDays :
             Eq(filecoin_df[t].network_gas_burn,
                Add(filecoin_df[t - 1].network_gas_burn, hist.daily_burnt_fil))
    /\ (use_historical_gas /\ pc # "fast_forward") =>
          \A t \in 0..start_day :
             Eq(filecoin_df[t].network_gas_burn, HistSupply(hist.name, t).burnt_fil)

(***************************************************************************)
(* agents/roi_agent.py: one step() of a ROIAgent or of a                   *)
(* ROIAgentDynamicOnboard, from the ROI estimates of the candidate         *)
(* durations to the calls it makes and the value it returns.               *)
(***************************************************************************)
ROIClasses == {"ROIAgent", "ROIAgentDynamicOnboard"}

\* self.duration_vec_days = np.asarray([360, 360*3])
duration_vec_days == <<360, 1080>>

\* roi_threshold = 0.1 (ROIAgent), min_roi = 0.1 (ROIAgentDynamicOnboard)
roi_threshold == Frac(1, 10)

\* annualized ROI estimates around the threshold
ROIEstimates == {Neg(One), Zero, roi_threshold, Frac(1, 5), Frac(3, 10)}

\* renewal_rate arguments of ROIAgent
RenewalRates == {Neg(Frac(1, 2)), Zero, Frac(3, 5)}

\* min_renewal_rate = 0.3 of ROIAgentDynamicOnboard, the floor of its clip
min_renewal_rate == Frac(3, 10)

\* np.argmax(roi_estimate_vec): the first position of the largest estimate
ArgMax(vec) ==
    CHOOSE i \in DOMAIN vec :
        /\ \A j \in DOMAIN vec : ~Lt(vec[i], vec[j])
        /\ \A j \in DOMAIN vec : j < i => Lt(vec[j], vec[i])

\* a threshold that the estimate has only to reach
ReachesThreshold(roi, threshold) == Le(threshold, roi)

\* if roi_estimate_vec[max_roi_idx] > self.roi_threshold
ExceedsThreshold(roi, threshold) == Lt(threshold, roi)

\* if self.debug_mode: return onboard_args_to_return, renew_args_to_return
\* (the names are local variables assigned in the branches only)
ReturnArgs(debug_mode, onboard_bound, renew_bound) ==
    IF debug_mode /\ ~(onboard_bound /\ renew_bound)
    THEN "UnboundLocalError" ELSE "none"

\* step(): the outcome for the estimates roi_estimate_vec
ROIAgentStep(class, debug_mode, renewal_rate, roi_estimate_vec) ==
    Bind(ArgMax(roi_estimate_vec), LAMBDA max_roi_idx :
    Bind(ExceedsThreshold(roi_estimate_vec[max_roi_idx], roi_threshold), LAMBDA above :
    Bind(IF class = "ROIAgent"
         THEN above /\ Lt(Zero, renewal_rate)
         ELSE above, LAMBDA renews :
    Bind(ReturnArgs(debug_mode, above /\ debug_mode, renews /\ debug_mode), LAMBDA e :
        [best_duration |-> duration_vec_days[max_roi_idx],
         onboard_power |-> above /\ ~debug_mode,
         renew_power |-> renews /\ ~debug_mode,
         renewal_rate |-> IF class = "ROIAgent" THEN renewal_rate
                          ELSE PyMax(renewal_rate, min_renewal_rate),
         super_step |-> TRUE,
         returned |-> IF ~debug_mode THEN "None"
                      ELSE IF e = "none" THEN "args" ELSE "raised",
         err |-> e]))))

InitROI ==
    /\ compute_cs_from_networkdatastart = TRUE
    /\ use_historical_gas = FALSE
    /\ start_day = BootDays
    /\ end_day = BootDays + ShortSim
    /\ hist = HistRecord("seeded")
    /\ current_day = start_day
    /\ pc = "agent.step"
    /\ filecoin_df = [t \in 0..(end_day - 1) |->
          [EmptyRow EXCEPT !.scheduled_pledge_release =
              HistTotalPledge(hist.name, t, start_day)]]
    /\ agents = _seed_agents(hist.name, start_day, end_day)
    /\ upd = NoUpdate
    /\ boot_day = 0
    /\ \E class \in ROIClasses, debug_mode \in BOOLEAN, renewal_rate \in RenewalRates,
          r1 \in ROIEstimates, r2 \in ROIEstimates :
          probe = [f |-> "roi_step", done |-> FALSE, class |-> class,
                   debug_mode |-> debug_mode, renewal_rate |-> renewal_rate,
                   roi_estimate_vec |-> <<r1, r2>>,
                   out |-> [err |-> "none"]]
    /\ err = "none"

\* agent.step() of the ROI agent
ApplyROIStep ==
    /\ pc = "agent.step" /\ probe.f = "roi_step" /\ ~probe.done
    /\ \E o \in {ROIAgentStep(probe.class, probe.debug_mode, probe.renewal_rate,
                                probe.roi_estimate_vec)} :
          /\ probe' = [probe EXCEPT !.done = TRUE, !.out = o]
          /\ err' = o.err
    /\ UNCHANGED <<cfg, current_day, pc, filecoin_df, agents, upd, boot_day>>

NextROI == ApplyROIStep

SpecROI == InitROI /\ [][NextROI]_vars

\* the best annualized ROI estimate of the step strictly exceeds the threshold
C26_BestExceeds ==
    \E i \in DOMAIN probe.roi_estimate_vec :
        Lt(roi_threshold, probe.roi_estimate_vec[i])

\* a step of a ROIAgent onboards if and only if the best estimate strictly
\* exceeds roi_threshold, renews if and only if it does and renewal_rate > 0,
\* and does the base-class bookkeeping in every case
C26_Decision ==
    /\ probe.out.onboard_power <=> C26_BestExceeds
    /\ probe.out.renew_power <=> (C26_BestExceeds /\ Lt(Zero, probe.renewal_rate))
    /\ probe.out.super_step

\* C26 as stated: in a ROIAgent step, power is onboarded (and renewed) if
\* and only if the best annualized ROI estimate over the candidate durations
\* strictly exceeds roi_threshold; otherwise the step records no onboarding
\* and no renewal and only does the base-class bookkeeping; renewal also
\* requires renewal_rate > 0.
C26_OnboardsIffAboveThreshold ==
    (probe.f = "roi_step" /\ probe.done /\ probe.class = "ROIAgent") => C26_Decision

\* C26 amended: the same for a ROIAgent step with debug_mode = False.
C26_OnboardsIffAboveThresholdNoDebug ==
    (probe.f = "roi_step" /\ probe.done /\ probe.class = "ROIAgent"
        /\ ~probe.debug_mode) => C26_Decision

\* a ROIAgent whose best estimate is exactly the threshold did not onboard
C26_Witness ==
    /\ probe.f = "roi_step" /\ probe.done /\ probe.class = "ROIAgent"
    /\ ~probe.debug_mode
    /\ probe.roi_estimate_vec = <<Zero, roi_threshold>>
    /\ Lt(Zero, probe.renewal_rate)
    /\ ~probe.out.onboard_power /\ ~probe.out.renew_power /\ probe.out.super_step

\* C27: with debug_mode = True a step of ROIAgent or ROIAgentDynamicOnboard
\* calls neither onboard_power nor renew_power and returns the argument
\* tuples it computed, for every ROI outcome and every renewal_rate,
\* without raising.
C27_DebugModeReturnsArgs ==
    (probe.f = "roi_step" /\ probe.done /\ probe.debug_mode) =>
        /\ ~probe.out.onboard_power /\ ~probe.out.renew_power
        /\ probe.out.returned = "args"
        /\ probe.out.err = "none"

(***************************************************************************)
(* agents/dca_agent.py: the steps of one DCAAgent.  The network state it   *)
(* meets (the pledge estimate) and the power scheduled to expire on the    *)
(* day vary from step to step; its constructor arguments do not.           *)
(***************************************************************************)
\* max_daily_rb_onboard_pib and max_sealing_throughput_pib, in PiB
OnboardCaps == {One, Q(3)}

\* the power scheduled to expire on a day, CC or deal
ExpiringPower == {Zero, Q(2)}

\* pledge_per_pib as the model estimates it from the day's network state
PledgeEstimates == {NaN, Q(5)}

\* a renewal of everything that expires, deal power included
all_power_to_renew(se_power_dict, renewal_rate) ==
    Mul(Add(se_power_dict.se_cc_power, se_power_dict.se_deal_power), renewal_rate)

\* cc_power_to_renew = cc_power*self.renewal_rate
cc_power_to_renew(se_power_dict, renewal_rate) ==
    Mul(se_power_dict.se_cc_power, renewal_rate)

\* DCAAgent.step: the arguments of onboard_power and of renew_power
DCAAgentStep(a, day, se_power_dict, pledge_per_pib) ==
    Bind(PyMin(a.max_daily_rb_onboard_pib, a.max_sealing_throughput_pib),
         LAMBDA rb_to_onboard :
        [day |-> day,
         onboard |-> [rb |-> rb_to_onboard, duration |-> a.sector_duration],
         renew_power |-> Lt(Zero, a.renewal_rate),
         renew |-> IF Lt(Zero, a.renewal_rate)
                   THEN [cc |-> cc_power_to_renew(se_power_dict, a.renewal_rate),
                         duration |-> a.sector_duration,
                         pledge |-> Mul(cc_power_to_renew(se_power_dict, a.renewal_rate),
                                        pledge_per_pib)]
                   ELSE [cc |-> Zero, duration |-> 0, pledge |-> Zero],
         se_power_dict |-> se_power_dict])

InitDCA ==
    /\ compute_cs_from_networkdatastart = TRUE
    /\ use_historical_gas = FALSE
    /\ start_day = BootDays
    /\ end_day = BootDays + ShortSim
    /\ hist = HistRecord("seeded")
    /\ current_day = start_day
    /\ pc = "agent.step"
    /\ filecoin_df = [t \in 0..(end_day - 1) |->
          [EmptyRow EXCEPT !.scheduled_pledge_release =
              HistTotalPledge(hist.name, t, start_day)]]
    /\ agents = _seed_agents(hist.name, start_day, end_day)
    /\ upd = NoUpdate
    /\ boot_day = 0
    /\ \E daily \in OnboardCaps, sealing \in OnboardCaps, renewal_rate \in RenewalRates :
          probe = [f |-> "dca_step",
                   agent |-> [max_daily_rb_onboard_pib |-> daily,
                              max_sealing_throughput_pib |-> sealing,
                              renewal_rate |-> renewal_rate,
                              sector_duration |-> LongDuration],
                   steps |-> <<>>]
    /\ err = "none"

\* agent.step() of the DCA agent on the current day
ApplyDCAStep ==
    /\ pc = "agent.step" /\ probe.f = "dca_step"
    /\ current_day < end_day
    /\ current_day - start_day < MaxSteps
    /\ \E cc \in ExpiringPower, deal \in ExpiringPower, pledge_per_pib \in PledgeEstimates :
          probe' = [probe EXCEPT !.steps =
                       Append(@, DCAAgentStep(probe.agent, current_day,
                                              [se_cc_power |-> cc, se_deal_power |-> deal],
                                              pledge_per_pib))]
    /\ current_day' = current_day + 1
    /\ UNCHANGED <<cfg, pc, filecoin_df, agents, upd, boot_day, err>>

NextDCA == ApplyDCAStep

SpecDCA == InitDCA /\ [][NextDCA]_vars

\* C28: on every step a DCAAgent onboards the same raw power
\* min(max_daily_rb_onboard_pib, max_sealing_throughput_pib), whatever the
\* network state and the day; it renews only CC power, renewal_rate times
\* the CC power scheduled to expire that day; with renewal_rate = 0 it
\* records no renewal.
C28_FixedOnboardingCCRenewal ==
    probe.f = "dca_step" =>
        \A k \in DOMAIN probe.steps :
            /\ probe.steps[k].onboard.rb =
                  (IF Lt(probe.agent.max_sealing_throughput_pib,
                         probe.agent.max_daily_rb_onboard_pib)
                   THEN probe.agent.max_sealing_throughput_pib
                   ELSE probe.agent.max_daily_rb_onboard_pib)
            /\ probe.steps[k].onboard.rb = probe.steps[1].onboard.rb
            /\ probe.steps[k].renew_power =>
                  probe.steps[k].renew.cc =
                      Mul(probe.agent.renewal_rate, probe.steps[k].se_power_dict.se_cc_power)
            /\ probe.agent.renewal_rate = Zero => ~probe.steps[k].renew_power

\* two steps of an agent with renewal_rate 0.6 whose sealing throughput is
\* the smaller cap: on a day with expiring CC and deal power it renewed the
\* CC part, on the other day nothing expired and the pledge estimate differed
C28_Witness ==
    /\ probe.f = "dca_step" /\ Len(probe.steps) = 2
    /\ probe.agent.renewal_rate = Frac(3, 5)
    /\ probe.agent.max_sealing_throughput_pib = One
    /\ probe.agent.max_daily_rb_onboard_pib = Q(3)
    /\ probe.steps[1].se_power_dict = [se_cc_power |-> Q(2), se_deal_power |-> Q(2)]
    /\ probe.steps[1].renew.cc = Frac(6, 5)
    /\ probe.steps[2].se_power_dict = [se_cc_power |-> Zero, se_deal_power |-> Zero]
    /\ probe.steps[2].onboard.rb = One
    /\ probe.steps[1].renew.pledge # probe.steps[2].renew.pledge

\* the fields the first step reads from the row of the day before
C29_PreviousDayFields ==
    {"circ_supply", "network_locked", "network_locked_pledge", "network_locked_reward",
     "cum_capped_power", "cum_network_reward", "total_raw_power_eib",
     "total_qa_power_eib", "network_gas_burn"}

\* C29: when the first step of the simulation executes, the ledger row of
\* the day before start_date holds a defined value for every field the step
\* reads from it, in both compute_cs_from_networkdatastart modes, and the
\* locked collateral the constructor seeded is on that row: its pledge and
\* reward parts add up to the row's network_locked.
C29_PreviousDaySeeded ==
    (pc = "running" /\ current_day = start_day) =>
        /\ \A c \in C29_PreviousDayFields : ~IsNaN(filecoin_df[start_day - 1][c])
        /\ Eq(Add(filecoin_df[start_day - 1].network_locked_pledge,
                  filecoin_df[start_day - 1].network_locked_reward),
              filecoin_df[start_day - 1].network_locked)

(***************************************************************************)
(* The model built on a history with or without renewals before the        *)
(* simulation starts.                                                      *)
(***************************************************************************)
InitRenewals ==
    /\ compute_cs_from_networkdatastart \in BOOLEAN
    /\ use_historical_gas \in BOOLEAN
    /\ start_day = BootDays
    /\ \E h \in {"seeded", "renewing"} : hist = HistRecord(h)
    /\ end_day = BootDays + ShortSim
    /\ current_day = start_day
    /\ pc = "fast_forward"
    /\ filecoin_df = [t \in 0..(end_day - 1) |->
          [EmptyRow EXCEPT !.scheduled_pledge_release =
              HistTotalPledge(hist.name, t, start_day)]]
    /\ agents = _seed_agents(hist.name, start_day, end_day)
    /\ upd = NoUpdate
    /\ boot_day = 0
    /\ probe = [f |-> "none"]
    /\ err = "none"

SpecRenewals == InitRenewals /\ [][Next]_vars

\* the scheduled_pledge_release entries of the rows after day_idx, in the
\* network ledger and in every agent's accounting table
C30_FutureReleases(df, ag, day_idx) ==
    [network |-> [t \in {u \in DOMAIN df : u > day_idx} |->
                     df[t].scheduled_pledge_release],
     agents |-> [a \in Agents |->
                    [t \in {u \in DOMAIN ag[a].accounting_df : u > day_idx} |->
                        ag[a].accounting_df[t].scheduled_pledge_release]]]

\* _update_sched_expire_pledge(date_in, update_filecoin_df=False) on the
\* day the constructor's supply loop has reached
C30_FastForwardCall ==
    _update_sched_expire_pledge(filecoin_df, agents, boot_day, FALSE)

\* C30: _update_sched_expire_pledge called with update_filecoin_df = False
\* (the fast-forward case) leaves the network ledger unchanged and leaves
\* the scheduled_pledge_release of every future row unchanged in the
\* network ledger and in every agent's accounting table.
C30_NoLedgerUpdate ==
    (pc = "cs_loop" /\ boot_day < start_day) =>
        /\ C30_FastForwardCall.df = filecoin_df
        /\ C30_FutureReleases(C30_FastForwardCall.df, C30_FastForwardCall.ag, boot_day)
              = C30_FutureReleases(filecoin_df, agents, boot_day)

\* the ledger row and every agent's accounting row of the days before t are
\* the same after the step as before it
C31_RowsBeforeKept(t) ==
    \A u \in DOMAIN filecoin_df :
        u < t =>
            /\ filecoin_df'[u] = filecoin_df[u]
            /\ \A a \in Agents : agents'[a].accounting_df[u] = agents[a].accounting_df[u]

\* C31: a step of the simulation for day t changes no ledger row and no
\* accounting row dated before t, and once the constructor's replay has
\* written the rows of the days before start_date nothing overwrites them,
\* _zero_agent_rewards included.
C31_PastRowsImmutable ==
    [][/\ pc = "running" => C31_RowsBeforeKept(current_day)
       /\ pc = "zero_rewards" => C31_RowsBeforeKept(start_day)]_vars

\* the agents' tables with the scheduled_pledge_release of every row but
\* that of day d changed
C32_OtherReleasesChanged(ag, d) ==
    [a \in Agents |-> [ag[a] EXCEPT !.accounting_df =
        [t \in DOMAIN ag[a].accounting_df |->
            IF t = d THEN ag[a].accounting_df[t]
            ELSE [ag[a].accounting_df[t] EXCEPT !.scheduled_pledge_release =
                     Add(@, Q(7))]]]]

\* the step of day d: the pledge delta of every agent is computed from the
\* agent's scheduled_pledge_release of row d and from no other row's, and
\* the sum of the deltas is what the locked pledge of day d changes by
C32_ConsumedOn(d) ==
    /\ \A a \in Agents :
          /\ upd'.agent_pledge_delta[a] =
                compute_day_delta_pledge(
                    filecoin_df'[d].day_network_reward,
                    filecoin_df[d - 1].circ_supply,
                    Mul(agents'[a].onboarded_power[d].qa, Q(PIB)),
                    Mul(agents'[a].renewed_power[d].qa, Q(PIB)),
                    Mul(filecoin_df'[d].total_qa_power_eib, Q(EIB)),
                    network_baseline(d),
                    upd'.rr_cs[a],
                    agents'[a].accounting_df[d].scheduled_pledge_release)
          /\ upd'.agent_pledge_delta[a] =
                AgentPledgeDelta(filecoin_df', C32_OtherReleasesChanged(agents', d), a, d)
          /\ agents'[a].accounting_df[d].onboard_scheduled_pledge_release_FIL =
                agents[a].accounting_df[d].onboard_scheduled_pledge_release_FIL
    /\ filecoin_df'[d].network_locked_pledge =
          Add(filecoin_df[d - 1].network_locked_pledge,
              SumOver(upd'.agent_pledge_delta, Agents))

\* C32: a pledge amount registered for release on a future date D of the
\* ledger is consumed exactly once: the step of day D passes the agent's
\* scheduled_pledge_release[D] to the day's pledge-delta computation, whose
\* result is what the locked pledge of day D changes by, and the step of no
\* other day reads it.
C32_ReleaseConsumedOnce ==
    [][(pc = "running" /\ upd'.op = "step" /\ current_day' = current_day + 1
          /\ upd'.day = current_day) => C32_ConsumedOn(current_day)]_vars

\* the second simulated day consumed a release that an agent's onboarding
\* of the first day had registered for it
C32_Witness ==
    /\ pc = "running" /\ upd.op = "step" /\ upd.day = start_day + 1
    /\ \E a \in Agents :
          /\ Lt(Zero, agents[a].accounting_df[upd.day].onboard_scheduled_pledge_release_FIL)
          /\ Lt(upd.agent_pledge_delta[a], Zero)
    /\ IsFinite(filecoin_df[upd.day].network_locked_pledge)

\* the rows whose total power a daily update divides by: the rows of the
\* constructor's replay and the simulated days
C33_PowerRows ==
    (IF pc # "fast_forward" THEN 0..(start_day - 1) ELSE {}) \cup RunningRows

\* the rows on which _update_generated_quantities and _update_agents ran
C33_UpdatedRows ==
    (IF compute_cs_from_networkdatastart THEN 1..(boot_day - 1) ELSE {}) \cup RunningRows

\* sum(agent_power_proportion_vec) of day t
C33_ShareSum(t) ==
    SumOver([a \in Agents |->
                PyMin(Div(Mul(get_active_qa_power_at_date(agents, a, t), Q(PIB)),
                          Mul(filecoin_df[t].total_qa_power_eib, Q(EIB))), One)],
            Agents)

\* C33: no division of a daily update has a zero denominator: the total raw
\* and QA power of every row used as a denominator (written by the
\* constructor's replay or by a step) are at least MIN_VALUE, the
\* onboarded-QA-power denominator of day_pledge_per_QAP is at least
\* MIN_VALUE, and the sum that normalises the agents' power shares is
\* positive.
C33_NoZeroDenominator ==
    /\ \A t \in C33_PowerRows :
          /\ Le(MIN_VALUE, filecoin_df[t].total_raw_power_eib)
          /\ Le(MIN_VALUE, filecoin_df[t].total_qa_power_eib)
    /\ \A t \in C33_UpdatedRows :
          /\ Le(MIN_VALUE, PyMax(Mul(filecoin_df[t].day_onboarded_qap_pib, Q(PIB)),
                                 MIN_VALUE))
          /\ Lt(Zero, C33_ShareSum(t))

(***************************************************************************)
(* agents/roi_agent.py: estimate_roi of both classes, from the ROI over    *)
(* the sector's life to the annualized value.  An agent is the record of   *)
(* the attributes its constructor sets.                                    *)
(***************************************************************************)
\* roi_threshold (ROIAgent) and min_roi (ROIAgentDynamicOnboard) arguments
Thresholds == {Neg(Frac(1, 2)), Zero, Frac(1, 10)}

\* ROI estimates over the sector's life; 1 + roi is a cube where roi >= -1
LifetimeROIs == {Neg(Q(3)), Neg(Q(2)), Neg(Frac(3, 2)), Neg(One), Zero, Q(7), Q(26)}

\* ROIAgent.__init__ sets self.roi_threshold; ROIAgentDynamicOnboard's
\* __init__ sets min_roi and max_roi and no roi_threshold
ROIAgentAttributes(class, threshold) ==
    IF class = "ROIAgent"
    THEN [class |-> class, roi_threshold |-> threshold]
    ELSE [class |-> class, min_roi |-> threshold, max_roi |-> Add(threshold, Frac(1, 5))]

\* the threshold the agent's step compares the best estimate with
OnboardingThreshold(agent) ==
    IF agent.class = "ROIAgent" THEN agent.roi_threshold ELSE agent.min_roi

\* the integer cube root of a cube
CubeRoot(n) == CHOOSE r \in 0..n : r * r * r = n

\* (1.0+roi_estimate)**(1.0/sector_duration_yrs) - 1, sector_duration_yrs 1 or 3
Annualized(roi_estimate, sector_duration) ==
    IF sector_duration = 360 THEN roi_estimate
    ELSE Sub(Q(CubeRoot(Add(One, roi_estimate).n)), One)

\* estimate_roi from the line 'if roi_estimate < -1'
estimate_roi(agent, sector_duration, roi_estimate) ==
    IF Lt(roi_estimate, Neg(One))
    THEN IF "roi_threshold" \in DOMAIN agent
         THEN [v |-> Sub(agent.roi_threshold, One), err |-> "none"]
         ELSE [v |-> NaN, err |-> "AttributeError"]
    ELSE [v |-> Annualized(roi_estimate, sector_duration), err |-> "none"]

InitEstimate ==
    /\ compute_cs_from_networkdatastart = TRUE
    /\ use_historical_gas = FALSE
    /\ start_day = BootDays
    /\ end_day = BootDays + ShortSim
    /\ hist = HistRecord("seeded")
    /\ current_day = start_day
    /\ pc = "agent.estimate_roi"
    /\ filecoin_df = [t \in 0..(end_day - 1) |->
          [EmptyRow EXCEPT !.scheduled_pledge_release =
              HistTotalPledge(hist.name, t, start_day)]]
    /\ agents = _seed_agents(hist.name, start_day, end_day)
    /\ upd = NoUpdate
    /\ boot_day = 0
    /\ \E class \in ROIClasses, threshold \in Thresholds, roi \in LifetimeROIs,
          k \in DOMAIN duration_vec_days :
          probe = [f |-> "estimate_roi", done |-> FALSE,
                   agent |-> ROIAgentAttributes(class, threshold),
                   sector_duration |-> duration_vec_days[k],
                   roi_estimate |-> roi,
                   out |-> [v |-> NaN, err |-> "none"]]
    /\ err = "none"

ApplyEstimateROI ==
    /\ pc = "agent.estimate_roi" /\ probe.f = "estimate_roi" /\ ~probe.done
    /\ \E o \in {estimate_roi(probe.agent, probe.sector_duration, probe.roi_estimate)} :
          /\ probe' = [probe EXCEPT !.done = TRUE, !.out = o]
          /\ err' = o.err
    /\ UNCHANGED <<cfg, current_day, pc, filecoin_df, agents, upd, boot_day>>

NextEstimate == ApplyEstimateROI

SpecEstimate == InitEstimate /\ [][NextEstimate]_vars

\* C34: in ROIAgent and in ROIAgentDynamicOnboard, when the ROI estimate of
\* a duration is below -1, estimate_roi returns without raising an
\* annualized value strictly below the agent's onboarding threshold.
C34_LowROIBelowThreshold ==
    (probe.f = "estimate_roi" /\ probe.done /\ Lt(probe.roi_estimate, Neg(One))) =>
        /\ probe.out.err = "none"
        /\ Lt(probe.out.v, OnboardingThreshold(probe.agent))

\* the rows whose minting columns the constructor's replay or a step wrote
C35_MintedRows ==
    (IF pc # "fast_forward" THEN 0..(start_day - 1) ELSE {}) \cup RunningRows

DynamicSettings ==
    {[min_daily_rb_onboard_pib |-> Q(3), max_daily_rb_onboard_pib |-> Q(12),
      min_renewal_rate |-> Frac(3, 10), max_renewal_rate |-> Frac(4, 5),
      min_roi |-> Frac(1, 10), max_roi |-> Frac(3, 10)],
     [min_daily_rb_onboard_pib |-> Q(1), max_daily_rb_onboard_pib |-> Q(1),
      min_renewal_rate |-> Zero, max_renewal_rate |-> One,
      min_roi |-> Zero, max_roi |-> Frac(1, 2)],
     [min_daily_rb_onboard_pib |-> Zero, max_daily_rb_onboard_pib |-> Q(25),
      min_renewal_rate |-> Frac(1, 2), max_renewal_rate |-> Frac(1, 2),
      min_roi |-> Neg(Frac(1, 2)), max_roi |-> Frac(1, 5)]}

\* annualized ROI estimates: below, at, between and above min_roi and max_roi
DynamicROIEstimates ==
    {Neg(Frac(9, 10)), Frac(1, 10), Frac(1, 5), Frac(3, 10), Q(2), Q(100)}

\* linear(x1, y1, x2, y2, x)
linear(x1, y1, x2, y2, x) ==
    Bind(Div(Sub(y2, y1), Sub(x2, x1)), LAMBDA m :
    Bind(Sub(y1, Mul(m, x1)), LAMBDA b :
        Add(Mul(m, x), b)))

convert_roi_to_onboard(self, estimated_roi) ==
    [rb_to_onboard |-> linear(self.min_roi, self.min_daily_rb_onboard_pib,
                              self.max_roi, self.max_daily_rb_onboard_pib, estimated_roi),
     renew_pct |-> linear(self.min_roi, self.min_renewal_rate,
                          self.max_roi, self.max_renewal_rate, estimated_roi)]

\* a clip that lets the value through
NotClipped(x, lo, hi) == x

\* max(min(x, hi), lo)
ClipToRange(x, lo, hi) == PyMax(PyMin(x, hi), lo)

\* step(): the outcome for the estimates roi_estimate_vec
DynamicOnboardStep(self, debug_mode, roi_estimate_vec) ==
    Bind(ArgMax(roi_estimate_vec), LAMBDA max_roi_idx :
    Bind(Lt(self.min_roi, roi_estimate_vec[max_roi_idx]), LAMBDA above :
    Bind(convert_roi_to_onboard(self, roi_estimate_vec[max_roi_idx]), LAMBDA c :
    Bind(ReturnArgs(debug_mode, above /\ debug_mode, above /\ debug_mode), LAMBDA e :
        [best_duration |-> duration_vec_days[max_roi_idx],
         decided |-> above,
         rb_to_onboard |-> IF above
                           THEN ClipToRange(c.rb_to_onboard,
                                            self.min_daily_rb_onboard_pib,
                                            self.max_daily_rb_onboard_pib)
                           ELSE Zero,
         renewal_rate |-> IF above
                          THEN ClipToRange(c.renew_pct, self.min_renewal_rate,
                                           self.max_renewal_rate)
                          ELSE Zero,
         onboard_power |-> above /\ ~debug_mode,
         renew_power |-> above /\ ~debug_mode,
         super_step |-> TRUE,
         returned |-> IF ~debug_mode THEN "None"
                      ELSE IF e = "none" THEN "args" ELSE "raised",
         err |-> e]))))

InitDynamic ==
    /\ compute_cs_from_networkdatastart = TRUE
    /\ use_historical_gas = FALSE
    /\ start_day = BootDays
    /\ end_day = BootDays + ShortSim
    /\ hist = HistRecord("seeded")
    /\ current_day = start_day
    /\ pc = "agent.step"
    /\ filecoin_df = [t \in 0..(end_day - 1) |->
          [EmptyRow EXCEPT !.scheduled_pledge_release =
              HistTotalPledge(hist.name, t, start_day)]]
    /\ agents = _seed_agents(hist.name, start_day, end_day)
    /\ upd = NoUpdate
    /\ boot_day = 0
    /\ \E self \in DynamicSettings, debug_mode \in BOOLEAN,
          r1 \in DynamicROIEstimates, r2 \in DynamicROIEstimates :
          probe = [f |-> "dynamic_step", done |-> FALSE, self |-> self,
                   debug_mode |-> debug_mode,
                   roi_estimate_vec |-> <<r1, r2>>,
                   out |-> [err |-> "none"]]
    /\ err = "none"

\* agent.step() of the dynamic ROI agent
ApplyDynamicStep ==
    /\ pc = "agent.step" /\ probe.f = "dynamic_step" /\ ~probe.done
    /\ \E o \in {DynamicOnboardStep(probe.self, probe.debug_mode,
                                      probe.roi_estimate_vec)} :
          /\ probe' = [probe EXCEPT !.done = TRUE, !.out = o]
          /\ err' = o.err
    /\ UNCHANGED <<cfg, current_day, pc, filecoin_df, agents, upd, boot_day>>

NextDynamic == ApplyDynamicStep

SpecDynamic == InitDynamic /\ [][NextDynamic]_vars

\* C36: in a step of ROIAgentDynamicOnboard that onboards, the raw power
\* onboarded lies in [min_daily_rb_onboard_pib, max_daily_rb_onboard_pib]
\* and the renewal rate applied lies in [min_renewal_rate,
\* max_renewal_rate], for every best ROI estimate above min_roi, also above
\* max_roi.
C36_ClippedToRange ==
    (probe.f = "dynamic_step" /\ probe.done /\ probe.out.decided) =>
        /\ Le(probe.self.min_daily_rb_onboard_pib, probe.out.rb_to_onboard)
        /\ Le(probe.out.rb_to_onboard, probe.self.max_daily_rb_onboard_pib)
        /\ Le(probe.self.min_renewal_rate, probe.out.renewal_rate)
        /\ Le(probe.out.renewal_rate, probe.self.max_renewal_rate)

\* a step onboarded on a best estimate above max_roi, where the line gives
\* more than max_daily_rb_onboard_pib and the clip brought it back to it
C36_Witness ==
    /\ probe.f = "dynamic_step" /\ probe.done /\ probe.out.onboard_power
    /\ \E i \in DOMAIN probe.roi_estimate_vec :
          /\ Lt(probe.self.max_roi, probe.roi_estimate_vec[i])
          /\ Lt(probe.self.max_daily_rb_onboard_pib,
                convert_roi_to_onboard(probe.self, probe.roi_estimate_vec[i]).rb_to_onboard)
    /\ Eq(probe.out.rb_to_onboard, probe.self.max_daily_rb_onboard_pib)
    /\ Eq(probe.out.renewal_rate, probe.self.max_renewal_rate)
    /\ Lt(probe.self.min_daily_rb_onboard_pib, probe.self.max_daily_rb_onboard_pib)

(***************************************************************************)
(* _release_pledge, the ledger function an agent calls when it moves a     *)
(* scheduled pledge release, and steps whose agents terminate power.       *)
(***************************************************************************)
\* date_from is None, or the date of ledger row t
NoDate == [is_none |-> TRUE, day |-> 0]
DateOf(t) == [is_none |-> FALSE, day |-> t]

\* a call that leaves the row of date_from as it is
ReleaseFromKept(df, date_from, FIL_amt) == df

\* if date_from_idx is not None: scheduled_pledge_release[date_from_idx] -= FIL_amt
ReleaseFrom(df, date_from, FIL_amt) ==
    IF date_from.is_none THEN df
    ELSE AddAt(df, date_from.day, "scheduled_pledge_release", Neg(FIL_amt))

\* .index[0] of an empty selection raises before any row is written
_release_pledge(df, date_from, date_to, FIL_amt) ==
    IF (~date_from.is_none /\ date_from.day \notin DOMAIN df) \/ date_to \notin DOMAIN df
    THEN [df |-> df, err |-> "IndexError"]
    ELSE [df |-> ReleaseFrom(AddAt(df, date_to, "scheduled_pledge_release", FIL_amt),
                             date_from, FIL_amt),
          err |-> "none"]

\* the dates an agent's policy moves a release from, on day t
ReleaseSources(t) ==
    {NoDate} \cup {DateOf(d) : d \in {x \in t..(t + 1) : x < end_day}}

\* a step() in which an agent's policy calls _release_pledge to bring a
\* scheduled release to the current date
ReleasingStep ==
    \E date_from \in ReleaseSources(current_day) :
    \E r \in {_release_pledge(filecoin_df, date_from, current_day, One)} :
        /\ r.err = "none"
        /\ StepOn(r.df, agents)

\* the agent tables after agent a recorded a termination fee on day t
TerminationFee(ag, a, t) ==
    [ag EXCEPT ![a].accounting_df[t].termination_burned_FIL = Add(@, One)]

\* a step() in which an agent's policy terminates power and records the fee
TerminatingStep ==
    \E a \in Agents :
        /\ current_day < end_day
        /\ StepOn(filecoin_df, TerminationFee(agents, a, current_day))

NextAgentCalls == Next \/ ReleasingStep \/ TerminatingStep

SpecAgentCalls == InitRenewals /\ [][NextAgentCalls]_vars

C38_BurnedOn(d) ==
    SumOver([a \in Agents |-> agents[a].accounting_df[d].termination_burned_FIL], Agents)

\* the fees recorded on the Running days up to t
RECURSIVE C38_BurnedUpTo(_)
C38_BurnedUpTo(t) ==
    IF t < start_day THEN Zero ELSE Add(C38_BurnedUpTo(t - 1), C38_BurnedOn(t))

\* the supply of row t before the burn of terminations is taken off
C38_SupplyBeforeBurn(t) ==
    Add(CircSupplyBalance(filecoin_df[t], t), filecoin_df[t].burn_from_terminations)

\* burn_from_terminations[t] holds every agent's fee of day t once
C38_AggregatedOnce ==
    \A t \in RunningRows : Eq(filecoin_df[t].burn_from_terminations, C38_BurnedOn(t))

\* C38: collateral burned by terminations leaves circulation for good:
\* burn_from_terminations[t] receives every agent's termination_burned_FIL
\* of day t exactly once in the step of day t, and an amount burned on day d
\* lowers circ_supply before its floor by that amount on day d and on
\* every later day.
C38_BurnIsPermanent ==
    /\ C38_AggregatedOnce
    /\ \A t \in RunningRows :
          Eq(filecoin_df[t].circ_supply,
             CircSupplyFloor(Sub(C38_SupplyBeforeBurn(t), C38_BurnedUpTo(t))))

(***************************************************************************)
(* _release_pledge on its own: one call on the seeded ledger.              *)
(***************************************************************************)
\* the amounts of the calls
ReleaseAmounts == {One, Frac(5, 2)}

InitRelease ==
    /\ compute_cs_from_networkdatastart = TRUE
    /\ use_historical_gas = FALSE
    /\ start_day = BootDays
    /\ \E h \in {"seeded", "renewing"} : hist = HistRecord(h)
    /\ end_day = BootDays + ShortSim
    /\ current_day = start_day
    /\ pc = "model._release_pledge"
    /\ filecoin_df = [t \in 0..(end_day - 1) |->
          [EmptyRow EXCEPT !.scheduled_pledge_release =
              HistTotalPledge(hist.name, t, start_day)]]
    /\ agents = _seed_agents(hist.name, start_day, end_day)
    /\ upd = NoUpdate
    /\ boot_day = 0
    /\ \E date_from \in {NoDate} \cup {DateOf(t) : t \in 0..end_day},
          date_to \in 0..end_day, FIL_amt \in ReleaseAmounts :
          probe = [f |-> "release", done |-> FALSE, date_from |-> date_from,
                   date_to |-> date_to, FIL_amt |-> FIL_amt]
    /\ err = "none"

\* model._release_pledge(date_from, date_to, FIL_amt)
ApplyReleasePledge ==
    /\ pc = "model._release_pledge" /\ probe.f = "release" /\ ~probe.done
    /\ \E r \in {_release_pledge(filecoin_df, probe.date_from, probe.date_to,
                                   probe.FIL_amt)} :
          /\ filecoin_df' = r.df
          /\ err' = r.err
    /\ probe' = [probe EXCEPT !.done = TRUE]
    /\ UNCHANGED <<cfg, current_day, pc, agents, upd, boot_day>>

NextRelease == ApplyReleasePledge

SpecRelease == InitRelease /\ [][NextRelease]_vars

\* the sum of scheduled_pledge_release over all dates of the ledger df
C39_TotalRelease(df) ==
    SumOver([t \in DOMAIN df |-> df[t].scheduled_pledge_release], DOMAIN df)

\* a call of _release_pledge that returned
C39_Call ==
    probe.f = "release" /\ ~probe.done /\ probe'.done /\ err' = "none"

\* what the call did to the ledger
C39_Effect ==
    /\ \A t \in DOMAIN filecoin_df :
          /\ [filecoin_df'[t] EXCEPT !.scheduled_pledge_release =
                 filecoin_df[t].scheduled_pledge_release] = filecoin_df[t]
          /\ (t # probe.date_to /\ (probe.date_from.is_none \/ t # probe.date_from.day))
                => filecoin_df'[t] = filecoin_df[t]
    /\ DOMAIN filecoin_df' = DOMAIN filecoin_df
    /\ agents' = agents
    /\ IF probe.date_from.is_none
       THEN Eq(filecoin_df'[probe.date_to].scheduled_pledge_release,
               Add(filecoin_df[probe.date_to].scheduled_pledge_release, probe.FIL_amt))
       ELSE /\ Eq(C39_TotalRelease(filecoin_df'), C39_TotalRelease(filecoin_df))
            /\ IF probe.date_from.day = probe.date_to
               THEN \A t \in DOMAIN filecoin_df :
                       Eq(filecoin_df'[t].scheduled_pledge_release,
                          filecoin_df[t].scheduled_pledge_release)
               ELSE /\ Eq(filecoin_df'[probe.date_to].scheduled_pledge_release,
                          Add(filecoin_df[probe.date_to].scheduled_pledge_release,
                              probe.FIL_amt))
                    /\ Eq(filecoin_df'[probe.date_from.day].scheduled_pledge_release,
                          Sub(filecoin_df[probe.date_from.day].scheduled_pledge_release,
                              probe.FIL_amt))

\* C39: _release_pledge(date_from, date_to, amt) with a date_from moves amt
\* from the row of date_from to the row of date_to and leaves the sum of
\* scheduled_pledge_release over all dates unchanged (no row changes when
\* date_from = date_to); with date_from = None it raises only the row of
\* date_to by amt; no other column and no other row of the ledger changes.
C39_ReleasePledgeFrame == [][C39_Call => C39_Effect]_vars

\* a call has moved an amount from a later row to an earlier one: the row of
\* date_to holds the seeded release plus the amount, the row of date_from
\* the seeded release minus it
C39_Witness ==
    /\ probe.f = "release" /\ probe.done /\ err = "none"
    /\ ~probe.date_from.is_none
    /\ probe.date_to < probe.date_from.day
    /\ Eq(filecoin_df[probe.date_to].scheduled_pledge_release,
          Add(HistTotalPledge(hist.name, probe.date_to, start_day), probe.FIL_amt))
    /\ Eq(filecoin_df[probe.date_from.day].scheduled_pledge_release,
          Sub(HistTotalPledge(hist.name, probe.date_from.day, start_day), probe.FIL_amt))

====
